---- MODULE Spec2Model ----
(***************************************************************************)
(* The climate-profile pipeline of scripts/fetch_climate_data.py: the      *)
(* four reductions of process_monthly_data, _compute_variability, _std,    *)
(* and the per-zone batch loop of main; and Config.get.                    *)
(*                                                                         *)
(* Numbers.  Monthly values are integers.  Every derived quantity is an    *)
(* exact rational kept as an integer numerator over a denominator that is  *)
(* stated where it is used; round(x, n) is the integer count of 10^-n      *)
(* units nearest to x (ties to even, as Python rounds a float that holds   *)
(* the tie exactly).  Day counts are kept in quarter days (28.25 = 113/4). *)
(* A period key "YYYYMM" is the integer year*100 + month.  JSON null is    *)
(* the integer None, outside the range of every data value.                *)
(*                                                                         *)
(* _std is also given over binary64 floats (_std_binary64): a float is a   *)
(* significand of at most MantBits bits, held as base-2^LimbBits digits,   *)
(* and a binary exponent; every operation rounds to nearest, ties to even. *)
(*                                                                         *)
(* Config.get of utils/config.py is specified on its own (SpecConfig): a   *)
(* loaded YAML value is None, a scalar, a list or a mapping keyed by       *)
(* strings, a string being the sequence of its characters.                 *)
(*                                                                         *)
(* The cache of utils/config.py (load_config, get_config; SpecCache) and   *)
(* setup_logging of utils/logger.py (SpecLog) are specified on their own,  *)
(* over sequences of up to MaxCalls calls.                                 *)
(***************************************************************************)
EXTENDS Integers, Sequences, FiniteSets, TLC

\* ------------------------------------------------------------- bounds
MaxYears == 2
MaxHoles == 1
NumZones == 2
MaxSamples == 3
MaxTotals == 5
MaxKeyLen == 3
MaxCalls == 3

\* ---------------------------------------------------------- constants
PARAMETERS ==
  <<"T2M", "T2M_MAX", "T2M_MIN", "PRECTOTCORR",
    "T2M_RANGE", "RH2M", "WS2M", "ALLSKY_SFC_SW_DWN">>

MONTH_NAMES ==
  <<"Jan", "Feb", "Mar", "Apr", "May", "Jun",
    "Jul", "Aug", "Sep", "Oct", "Nov", "Dec">>

\* The default of .get(key, -999) and the API's fill value.
MISSING == -999

\* JSON null (Python None).
None == -1000

\* Months of a year: range(1, 13).
NumMonths == 12

\* Day counts are held in units of 1/DayScale day.
DayScale == 4

\* The calendar table of a common year (February 28), in quarter days.
days_per_month_common ==
  <<124, 112, 124, 120, 124, 120, 124, 124, 120, 124, 120, 124>>

\* [31, 28.25, 31, 30, 31, 30, 31, 31, 30, 31, 30, 31] in quarter days.
days_per_month ==
  <<124, 113, 124, 120, 124, 120, 124, 124, 120, 124, 120, 124>>

\* --start's default.
DefaultStart == 2021

\* ------------------------------------------------------ arithmetic
RECURSIVE Pow10(_)
Pow10(n) == IF n = 0 THEN 1 ELSE 10 * Pow10(n - 1)

RECURSIVE sum(_)
sum(values) ==
  IF values = <<>> THEN 0 ELSE Head(values) + sum(Tail(values))

RECURSIVE min(_)
min(values) ==
  IF Len(values) = 1 THEN values[1]
  ELSE LET m == min(Tail(values))
       IN IF Head(values) < m THEN Head(values) ELSE m

RECURSIVE max(_)
max(values) ==
  IF Len(values) = 1 THEN values[1]
  ELSE LET m == max(Tail(values))
       IN IF Head(values) > m THEN Head(values) ELSE m

\* round(num/den, ndigits) in units of 10^-ndigits; den > 0.
round(num, den, ndigits) ==
  LET n == num * Pow10(ndigits)
      f == n \div den
      r == n % den
  IN  IF 2 * r < den THEN f
      ELSE IF 2 * r > den THEN f + 1
      ELSE IF f % 2 = 0 THEN f ELSE f + 1

\* _std: the sample standard deviation of values, returned exactly as the
\* rational whose square root it is: sqrt(sq_num / sq_den).
\*   mean = S/n, variance = sum((x - S/n)^2)/(n-1)
\*        = sum((n*x - S)^2) / (n*n*(n-1)).
RECURSIVE SumSqDev(_, _, _)
SumSqDev(values, n, S) ==
  IF values = <<>> THEN 0
  ELSE (n * Head(values) - S) * (n * Head(values) - S)
       + SumSqDev(Tail(values), n, S)

_std(values) ==
  IF Len(values) < 2 THEN [sq_num |-> 0, sq_den |-> 1]
  ELSE LET n == Len(values)
       IN [sq_num |-> SumSqDev(values, n, sum(values)),
           sq_den |-> n * n * (n - 1)]

\* a/c <= d/b for a, d >= 0 and c, b > 0, by continued fractions: exact, and
\* no product is formed.
RECURSIVE FracLeq(_, _, _, _)
FracLeq(a, c, d, b) ==
  LET q1 == a \div c
      q2 == d \div b
      r1 == a % c
      r2 == d % b
  IN  IF q1 # q2 THEN q1 < q2
      ELSE IF r1 = 0 THEN TRUE
      ELSE IF r2 = 0 THEN FALSE
      ELSE FracLeq(b, r2, c, r1)

\* a*b <= c*d for non-negative factors.
ProdLeq(a, b, c, d) ==
  IF a = 0 \/ b = 0 THEN TRUE
  ELSE IF c = 0 \/ d = 0 THEN FALSE
  ELSE FracLeq(a, c, d, b)

\* Whether (2k - 1) / (2u) <= sqrt(s.sq_num / s.sq_den) / den.
StdHalfBelow(k, s, den, u) ==
  LET X == (2 * k - 1) * den
  IN  k <= 0 \/ ProdLeq(X, X * s.sq_den, 4 * u * u, s.sq_num)

RECURSIVE StdGallop(_, _, _, _)
StdGallop(hi, s, den, u) ==
  IF StdHalfBelow(hi, s, den, u) THEN StdGallop(2 * hi, s, den, u) ELSE hi

RECURSIVE StdSearch(_, _, _, _, _)
StdSearch(lo, hi, s, den, u) ==
  IF hi - lo <= 1 THEN lo
  ELSE LET mid == (lo + hi) \div 2
       IN IF StdHalfBelow(mid, s, den, u) THEN StdSearch(mid, hi, s, den, u)
          ELSE StdSearch(lo, mid, s, den, u)

\* round(_std(values) / den, ndigits) in units of 10^-ndigits, values being
\* numerators over den: the largest k with k - 1/2 <= 10^ndigits * std.
round_std(s, den, ndigits) ==
  LET u == Pow10(ndigits)
  IN  StdSearch(0, StdGallop(1, s, den, u), s, den, u)

\* ------------------------------------------- binary64 arithmetic
\* Python floats are IEEE 754 binary64: 53 significant bits, every operation
\* rounded to nearest, ties to even.  A natural number of any size is the
\* sequence of its digits in base LimbBase, least significant first, without
\* high zeros; a positive float is [m, e] with m of exactly MantBits bits and
\* value m * 2^e, and 0.0 is FZero.  Only non-negative floats in the normal
\* range occur.
MantBits == 53

LimbBits == 15

LimbBase == 32768

RECURSIVE Pow2(_)
Pow2(k) == IF k = 0 THEN 1 ELSE 2 * Pow2(k - 1)

\* Number of bits of a small natural.
RECURSIVE BitLen(_)
BitLen(n) == IF n = 0 THEN 0 ELSE 1 + BitLen(n \div 2)

RECURSIVE BTrim(_)
BTrim(a) ==
  IF a = <<>> THEN <<>>
  ELSE IF a[Len(a)] = 0 THEN BTrim(SubSeq(a, 1, Len(a) - 1))
  ELSE a

RECURSIVE BFromNat(_)
BFromNat(n) ==
  IF n = 0 THEN <<>> ELSE <<n % LimbBase>> \o BFromNat(n \div LimbBase)

\* Number of bits of a.
BLen(a) ==
  IF a = <<>> THEN 0 ELSE (Len(a) - 1) * LimbBits + BitLen(a[Len(a)])

Limb(a, i) == IF i <= Len(a) THEN a[i] ELSE 0

\* a + b, by ripple carry from digit i on.
RECURSIVE BAddFrom(_, _, _, _)
BAddFrom(a, b, i, carry) ==
  IF i > Len(a) /\ i > Len(b)
  THEN (IF carry = 1 THEN <<1>> ELSE <<>>)
  ELSE LET t == Limb(a, i) + Limb(b, i) + carry
       IN  <<t % LimbBase>> \o BAddFrom(a, b, i + 1, t \div LimbBase)

BAdd(a, b) == BAddFrom(a, b, 1, 0)

\* a - b for a >= b, by ripple borrow.
RECURSIVE BSubFrom(_, _, _, _)
BSubFrom(a, b, i, borrow) ==
  IF i > Len(a) THEN <<>>
  ELSE LET t == Limb(a, i) - Limb(b, i) - borrow
       IN  <<t % LimbBase>> \o BSubFrom(a, b, i + 1, IF t < 0 THEN 1 ELSE 0)

BSub(a, b) == BTrim(BSubFrom(a, b, 1, 0))

\* a < b, for trimmed a and b: by length, then from the high digit down.
RECURSIVE BLessAt(_, _, _)
BLessAt(a, b, i) ==
  IF i = 0 THEN FALSE
  ELSE IF a[i] # b[i] THEN a[i] < b[i]
  ELSE BLessAt(a, b, i - 1)

BLess(a, b) ==
  IF Len(a) # Len(b) THEN Len(a) < Len(b) ELSE BLessAt(a, b, Len(a))

\* a * c for a small number 0 < c <= LimbBase.
RECURSIVE BMulSmallFrom(_, _, _, _)
BMulSmallFrom(a, c, i, carry) ==
  IF i > Len(a) THEN BFromNat(carry)
  ELSE LET t == a[i] * c + carry
       IN  <<t % LimbBase>> \o BMulSmallFrom(a, c, i + 1, t \div LimbBase)

BMulSmall(a, c) == BMulSmallFrom(a, c, 1, 0)

\* a * LimbBase^k
BShlLimbs(a, k) == IF a = <<>> THEN <<>> ELSE [i \in 1..k |-> 0] \o a

\* a * 2^k
BShl(a, k) ==
  BShlLimbs(BMulSmall(a, Pow2(k % LimbBits)), k \div LimbBits)

\* a * b, digit by digit of b.
RECURSIVE BMul(_, _)
BMul(a, b) ==
  IF a = <<>> \/ b = <<>> THEN <<>>
  ELSE LET rest == BShlLimbs(BMul(a, Tail(b)), 1)
       IN  IF Head(b) = 0 THEN rest ELSE BAdd(BMulSmall(a, Head(b)), rest)

\* Long division of a by the small number 0 < n <= LimbBase from the high
\* digit down: [q, r] with a = q * n + r.
RECURSIVE BDivFrom(_, _, _, _)
BDivFrom(a, n, i, rem) ==
  IF i = 0 THEN [q |-> <<>>, r |-> rem]
  ELSE LET cur == LimbBase * rem + a[i]
           low == BDivFrom(a, n, i - 1, cur % n)
       IN  [q |-> Append(low.q, cur \div n), r |-> low.r]

BDivSmall(a, n) ==
  LET d == BDivFrom(a, n, Len(a), 0)
  IN  [q |-> BTrim(d.q), r |-> d.r]

\* a \div 2^k, and whether a bit was shifted out.
BShr(a, k) ==
  LET drop == k \div LimbBits
      kept == IF drop >= Len(a) THEN <<>> ELSE SubSeq(a, drop + 1, Len(a))
      d == BDivSmall(kept, Pow2(k % LimbBits))
  IN  [q |-> d.q,
       lost |-> d.r # 0 \/ \E i \in 1..drop : Limb(a, i) # 0]

FZero == [m |-> <<>>, e |-> 0]

\* The float nearest to N * 2^e (+ a positive fraction of 2^e when sticky),
\* ties to even.  N is trimmed.
FRound(N, e, sticky) ==
  IF N = <<>> THEN FZero
  ELSE IF BLen(N) <= MantBits
  THEN [m |-> BShl(N, MantBits - BLen(N)), e |-> e - (MantBits - BLen(N))]
  ELSE LET s == BLen(N) - MantBits
           t == BShr(N, s - 1)
           half == t.q[1] % 2 = 1
           hi == BDivSmall(t.q, 2).q
           below == sticky \/ t.lost
           up == half /\ (below \/ hi[1] % 2 = 1)
           r == IF up THEN BAdd(hi, <<1>>) ELSE hi
       IN  IF BLen(r) > MantBits
           THEN [m |-> BDivSmall(r, 2).q, e |-> e + s + 1]
           ELSE [m |-> r, e |-> e + s]

\* The two significands over the smaller of the two exponents.
Aligned(x, y) ==
  LET e == IF x.e < y.e THEN x.e ELSE y.e
  IN  [a |-> BShl(x.m, x.e - e), b |-> BShl(y.m, y.e - e), e |-> e]

\* x + y
FAdd(x, y) ==
  IF x = FZero THEN y
  ELSE IF y = FZero THEN x
  ELSE LET al == Aligned(x, y) IN FRound(BAdd(al.a, al.b), al.e, FALSE)

\* |x - y|: the difference without its sign, which the square drops.
FAbsSub(x, y) ==
  IF x = FZero THEN y
  ELSE IF y = FZero THEN x
  ELSE LET al == Aligned(x, y)
       IN  IF BLess(al.a, al.b) THEN FRound(BSub(al.b, al.a), al.e, FALSE)
           ELSE FRound(BSub(al.a, al.b), al.e, FALSE)

\* x * y
FMul(x, y) ==
  IF x = FZero \/ y = FZero THEN FZero
  ELSE FRound(BMul(x.m, y.m), x.e + y.e, FALSE)

\* Extra quotient bits a division carries before it is rounded.
GuardBits == 8

\* x / n for an integer 0 < n < 2^(GuardBits - 2).
FDivInt(x, n) ==
  IF x = FZero THEN FZero
  ELSE LET d == BDivSmall(BShl(x.m, GuardBits), n)
       IN  FRound(d.q, x.e - GuardBits, d.r # 0)

\* The float a decimal literal num/den reads as (json.loads): the nearest
\* to the fraction, for 0 <= num and 0 < den <= 100.
FromDecimal(num, den) ==
  IF num = 0 THEN FZero
  ELSE LET d == BDivSmall(BShl(BFromNat(num), MantBits + GuardBits), den)
       IN  FRound(d.q, -(MantBits + GuardBits), d.r # 0)

\* sum(values) over floats: 0 + v1 + v2 + ..., left to right.
RECURSIVE FSumFrom(_, _)
FSumFrom(acc, values) ==
  IF values = <<>> THEN acc
  ELSE FSumFrom(FAdd(acc, Head(values)), Tail(values))

FSum(values) == FSumFrom(FZero, values)

\* The guard off by one: 0.0 for fewer than 3 values.
_std_binary64_lt3(values) ==
  IF Len(values) < 3 THEN [sqrt_of |-> FZero]
  ELSE LET mean == FDivInt(FSum(values), Len(values))
           sq == [i \in 1..Len(values) |->
                    LET dev == FAbsSub(values[i], mean) IN FMul(dev, dev)]
       IN  [sqrt_of |-> FDivInt(FSum(sq), Len(values) - 1)]

\* _std over floats.  The value returned is variance ** 0.5, held as the
\* float variance it is the square root of: 0.0 exactly when the variance is
\* 0.0, positive otherwise.
\*   mean = sum(values) / len(values)
\*   variance = sum((x - mean) ** 2 for x in values) / (len(values) - 1)
_std_binary64(values) ==
  IF Len(values) < 2 THEN [sqrt_of |-> FZero]
  ELSE LET mean == FDivInt(FSum(values), Len(values))
           sq == [i \in 1..Len(values) |->
                    LET dev == FAbsSub(values[i], mean) IN FMul(dev, dev)]
       IN  [sqrt_of |-> FDivInt(FSum(sq), Len(values) - 1)]

\* ------------------------------------------------- results of a call
Return(v) == [raised |-> FALSE, value |-> v]

Raise(type, msg) == [raised |-> TRUE, exc |-> [type |-> type, msg |-> msg]]

\* str(e)
str(e) == e.msg

\* ------------------------------------------------------ raw record
\* f"{year}{month:02d}"
PeriodKey(year, month) == year * 100 + month

\* params_data[param].get(key, -999)
Get(series, key) == IF key \in DOMAIN series THEN series[key] ELSE MISSING

\* The test without the sentinel: "val is not None" alone.
Present_not_none(val) == val # None

\* The test written on the value's truth: a 0 reads as missing.
Present_truthy(val) == val # MISSING /\ val # None /\ val # 0

\* val != -999 and val is not None
Present(val) == val # MISSING /\ val # None

\* The range that always holds its first year.
YearSeq_at_least_one(start_year, end_year) ==
  [i \in 1..(IF end_year >= start_year THEN end_year - start_year + 1 ELSE 1)
     |-> start_year + i - 1]

\* range(start_year, end_year + 1) as a sequence
YearSeq(start_year, end_year) ==
  [i \in 1..(end_year - start_year + 1) |-> start_year + i - 1]

\* The collection stopped after the first year of the range.
MonthValues_first_year(series, month_num, start_year, end_year) ==
  SelectSeq([i \in 1..(IF end_year >= start_year THEN 1 ELSE 0) |->
               Get(series, PeriodKey(start_year + i - 1, month_num))],
            Present)

\* The list a reduction collects for one calendar month across the years.
MonthValues(series, month_num, start_year, end_year) ==
  SelectSeq([i \in 1..(end_year - start_year + 1) |->
               Get(series, PeriodKey(start_year + i - 1, month_num))],
            Present)

\* The list a reduction collects for one year across its months.
YearValues(series, year) ==
  SelectSeq([month \in 1..NumMonths |-> Get(series, PeriodKey(year, month))],
            Present)

\* sum(v * d for v, d in zip(vals, days_per_month)), in quarter mm: zip pairs
\* the k-th collected value with the k-th entry of the table.
WeightedTotal(vals) ==
  sum([k \in 1..Len(vals) |-> vals[k] * days_per_month[k]])

IsPrecip(param) == param = "PRECTOTCORR"

\* ------------------------------------------- 1. monthly climatology
\* mean, min, max, std in hundredths.
MonthStats(values) ==
  [mean    |-> round(sum(values), Len(values), 2),
   min     |-> round(min(values), 1, 2),
   max     |-> round(max(values), 1, 2),
   std     |-> round_std(_std(values), 1, 2),
   n_years |-> Len(values)]

\* Whether the reduction emits the parameter for the month: "if values:".
HasValues(values) == values # <<>>

month_values(params_data, month_num, start_year, end_year) ==
  LET vals(param) ==
        MonthValues(params_data[param], month_num, start_year, end_year)
      emitted == {i \in 1..Len(PARAMETERS) :
                    /\ PARAMETERS[i] \in DOMAIN params_data
                    /\ HasValues(vals(PARAMETERS[i]))}
  IN  [param \in {PARAMETERS[i] : i \in emitted} |-> MonthStats(vals(param))]

\* The ordered mapping Jan..Dec: an entry per month, in insertion order.
monthly_clim(params_data, start_year, end_year) ==
  [m_idx \in 1..Len(MONTH_NAMES) |->
     [key   |-> MONTH_NAMES[m_idx],
      value |-> month_values(params_data, m_idx, start_year, end_year)]]

\* --------------------------------------------------- 2. annual summary
\* A coverage test that lets a year with one month missing through.
FullCoverage_11(year_vals) == Len(year_vals) >= 11

\* "if len(year_vals) == 12"
FullCoverage(year_vals) == Len(year_vals) = 12

\* The yearly value taken as the plain sum for every parameter, the day
\* counts left out.
YearlyValue_unweighted(param, year_vals) ==
  IF IsPrecip(param) THEN DayScale * sum(year_vals) ELSE sum(year_vals)

\* A qualifying year's value as a numerator: the day-weighted total over
\* DayScale for precipitation, the sum of the 12 values over 12 otherwise.
YearlyValue(param, year_vals) ==
  IF IsPrecip(param) THEN WeightedTotal(year_vals) ELSE sum(year_vals)

YearlyDen(param) == IF IsPrecip(param) THEN DayScale ELSE 12

\* yearly_means, as numerators over YearlyDen(param), in year order.
yearly_means(series, param, start_year, end_year) ==
  LET years == YearSeq(start_year, end_year)
      full(year) == FullCoverage(YearValues(series, year))
      kept == SelectSeq(years, full)
  IN  [k \in 1..Len(kept) |-> YearlyValue(param, YearValues(series, kept[k]))]

\* f"{param}_annual_total_mm" / f"{param}_annual_mean": <<param, suffix>>.
AnnualLabel(param) ==
  <<param, IF IsPrecip(param) THEN "_annual_total_mm" ELSE "_annual_mean">>

AnnualStats(values, den) ==
  [mean |-> round(sum(values), den * Len(values), 2),
   min  |-> round(min(values), den, 2),
   max  |-> round(max(values), den, 2),
   std  |-> round_std(_std(values), den, 2)]

annual(params_data, start_year, end_year) ==
  LET ym(param) ==
        yearly_means(params_data[param], param, start_year, end_year)
      emitted == {i \in 1..Len(PARAMETERS) :
                    /\ PARAMETERS[i] \in DOMAIN params_data
                    /\ ym(PARAMETERS[i]) # <<>>}
  IN  [label \in {AnnualLabel(PARAMETERS[i]) : i \in emitted} |->
         AnnualStats(ym(label[1]), YearlyDen(label[1]))]

\* ---------------------------------------------------- 3. yearly series
\* round(sum(v * d ...), 1): tenths of a mm.
YearTotal(vals) == round(WeightedTotal(vals), DayScale, 1)

\* The mean taken over 12 months whatever the number of values.
YearMonthlyMean_12(vals) == round(sum(vals), 12, 2)

\* round(sum(vals) / len(vals), 2): hundredths.
YearMonthlyMean(vals) == round(sum(vals), Len(vals), 2)

year_record(params_data, year) ==
  LET vals(param) == YearValues(params_data[param], year)
      emitted == {PARAMETERS[i] : i \in
                    {i \in 1..Len(PARAMETERS) :
                       /\ PARAMETERS[i] \in DOMAIN params_data
                       /\ vals(PARAMETERS[i]) # <<>>}}
      labels == {<<param, "_monthly_mean">> : param \in emitted}
                \cup {<<param, "_annual_total_mm">> :
                        param \in {p \in emitted : IsPrecip(p)}}
  IN  [label \in labels |->
         IF label[2] = "_annual_total_mm" THEN YearTotal(vals(label[1]))
         ELSE YearMonthlyMean(vals(label[1]))]

\* The years with an empty record left out of the mapping.
yearly_data_nonempty(params_data, start_year, end_year) ==
  [year \in {y \in start_year..end_year :
               year_record(params_data, y) # <<>>} |->
     year_record(params_data, year)]

\* yearly_data[str(year)]: the key is the year.
yearly_data(params_data, start_year, end_year) ==
  [year \in start_year..end_year |-> year_record(params_data, year)]

\* ------------------------------------------------------ 4. variability
RECURSIVE GCD(_, _)
GCD(a, b) == IF b = 0 THEN a ELSE GCD(b, a % b)

Abs(x) == IF x < 0 THEN -x ELSE x

\* With values numerators over a common denominator, S = sum(values),
\* n = len(values) and s = _std(values):  n * s = sqrt(NNum(s,n) * s.sq_num
\* / NDen(s,n)) in lowest terms of the n*n factor.
NNum(s, n) == (n * n) \div GCD(s.sq_den, n * n)

NDen(s, n) == s.sq_den \div GCD(s.sq_den, n * n)

\* The comparison that is not strict: p <= mean - std.
BelowDrought_or_equal(p, S, n, s) ==
  LET V == S - n * p
  IN  V >= 0 /\ ProdLeq(NNum(s, n), s.sq_num, V, V * NDen(s, n))

\* p < mean - std, for p a member of values.
BelowDrought(p, S, n, s) ==
  LET V == S - n * p
  IN  V > 0 /\ ~ProdLeq(V, V * NDen(s, n), NNum(s, n), s.sq_num)

\* The comparison that is not strict: p >= mean + std.
AboveWet_or_equal(p, S, n, s) ==
  LET V == n * p - S
  IN  V >= 0 /\ ProdLeq(NNum(s, n), s.sq_num, V, V * NDen(s, n))

\* p > mean + std.
AboveWet(p, S, n, s) ==
  LET V == n * p - S
  IN  V > 0 /\ ~ProdLeq(V, V * NDen(s, n), NNum(s, n), s.sq_num)

\* Whether (2k - 1) / (2 * 10^ndigits) <= mean + sign * std, the values
\* being numerators over den.
HalfBelow(k, S, n, s, den, sign, ndigits) ==
  LET u == Pow10(ndigits)
      W == (2 * k - 1) * n * den - 2 * u * S
      c == 4 * u * u * NNum(s, n)
  IN  IF sign > 0
      THEN W <= 0 \/ ProdLeq(W, W * NDen(s, n), c, s.sq_num)
      ELSE W <= 0 /\ ProdLeq(c, s.sq_num, -W, (-W) * NDen(s, n))

\* The largest k in lo..hi-1 with HalfBelow(k): round(mean + sign*std, ndigits).
RECURSIVE RoundSearch(_, _, _, _, _, _, _, _)
RoundSearch(lo, hi, S, n, s, den, sign, ndigits) ==
  IF hi - lo <= 1 THEN lo
  ELSE LET mid == (lo + hi) \div 2
       IN IF HalfBelow(mid, S, n, s, den, sign, ndigits)
          THEN RoundSearch(mid, hi, S, n, s, den, sign, ndigits)
          ELSE RoundSearch(lo, mid, S, n, s, den, sign, ndigits)

\* Whether (2k - 1) / (2 * 10^ndigits) = mean + sign * std: an exact tie.
HalfTie(k, S, n, s, den, sign, ndigits) ==
  LET u == Pow10(ndigits)
      W == (2 * k - 1) * n * den - 2 * u * S
      c == 4 * u * u * NNum(s, n)
  IN  /\ IF sign > 0 THEN W >= 0 ELSE W <= 0
      /\ ProdLeq(Abs(W), Abs(W) * NDen(s, n), c, s.sq_num)
      /\ ProdLeq(c, s.sq_num, Abs(W), Abs(W) * NDen(s, n))

\* round(mean + sign * std, ndigits) in units of 10^-ndigits, ties to even.
round_threshold(values, den, sign, ndigits) ==
  LET K == Pow10(ndigits)
             * (3 * ((Abs(max(values)) + Abs(min(values))) \div den + 1))
      S == sum(values)
      n == Len(values)
      s == _std(values)
      k == RoundSearch(-K, K, S, n, s, den, sign, ndigits)
  IN  IF HalfTie(k, S, n, s, den, sign, ndigits) /\ k % 2 # 0
      THEN k - 1 ELSE k

\* Whether (2k - 1) / 2000 <= std / mean, for S = n * mean > 0.
CvHalfBelow(k, S, n, s) ==
  LET X == (2 * k - 1) * S
  IN  X <= 0 \/ ProdLeq(X, X * NDen(s, n), 4000000 * NNum(s, n), s.sq_num)

RECURSIVE CvSearch(_, _, _, _, _)
CvSearch(lo, hi, S, n, s) ==
  IF hi - lo <= 1 THEN lo
  ELSE LET mid == (lo + hi) \div 2
       IN IF CvHalfBelow(mid, S, n, s) THEN CvSearch(mid, hi, S, n, s)
          ELSE CvSearch(lo, mid, S, n, s)

\* The first power of two that is not CvHalfBelow.
RECURSIVE CvGallop(_, _, _, _)
CvGallop(hi, S, n, s) ==
  IF CvHalfBelow(hi, S, n, s) THEN CvGallop(2 * hi, S, n, s) ELSE hi

\* The ratio guarded the other way: 0 where the mean is not positive.
cv_of_zero(values) ==
  LET S == sum(values)
      n == Len(values)
      s == _std(values)
  IN  IF S > 0 THEN CvSearch(0, CvGallop(1, S, n, s), S, n, s) ELSE 0

\* round(std_p / mean_p, 3) if mean_p > 0 else None, in thousandths.
cv_of(values) ==
  LET S == sum(values)
      n == Len(values)
      s == _std(values)
  IN  IF S > 0 THEN CvSearch(0, CvGallop(1, S, n, s), S, n, s) ELSE None

\* sum(1 for p in annual_precip if ...): the number of members flagged.
CountIf(flags) == sum([k \in 1..Len(flags) |-> IF flags[k] THEN 1 ELSE 0])

\* The precipitation block from the qualifying annual totals (quarter mm).
precipitation_block(annual_precip) ==
  LET S == sum(annual_precip)
      n == Len(annual_precip)
      s == _std(annual_precip)
      drought == [k \in 1..n |-> BelowDrought(annual_precip[k], S, n, s)]
      wet == [k \in 1..n |-> AboveWet(annual_precip[k], S, n, s)]
  IN  [cv                   |-> cv_of(annual_precip),
       drought_frequency    |-> round(CountIf(drought), n, 3),
       drought_threshold_mm |-> round_threshold(annual_precip, DayScale, -1, 1),
       wet_frequency        |-> round(CountIf(wet), n, 3),
       wet_threshold_mm     |-> round_threshold(annual_precip, DayScale, 1, 1)]

\* "if annual_precip:": the variability mapping as the precipitation part
\* leaves it.
precipitation_variability(annual_precip) ==
  [b \in (IF annual_precip # <<>> THEN {"precipitation"} ELSE {}) |->
     precipitation_block(annual_precip)]

\* A coverage test of the variability that lets a year with one month
\* missing through.
PrecipFullCoverage_11(year_vals) == Len(year_vals) >= 11

\* "if len(year_vals) == 12", the variability's own coverage test.
PrecipFullCoverage(year_vals) == Len(year_vals) = 12

\* annual_precip: the totals of the years with full coverage, in year order.
annual_precip(series, start_year, end_year) ==
  LET years == YearSeq(start_year, end_year)
      full(year) == PrecipFullCoverage(YearValues(series, year))
      kept == SelectSeq(years, full)
  IN  [k \in 1..Len(kept) |-> WeightedTotal(YearValues(series, kept[k]))]

\* jul_val != -999 / jan_val != -999: null is not tested here.
NotSentinel(val) == val # MISSING

\* The two lists filled together: a year gives its January and its July
\* value only when it has both.
month_temps_paired(series, month_num, start_year, end_year) ==
  LET both(year) == /\ Get(series, PeriodKey(year, 1)) # MISSING
                    /\ Get(series, PeriodKey(year, 7)) # MISSING
      kept == SelectSeq(YearSeq(start_year, end_year), both)
  IN  [k \in 1..Len(kept) |-> Get(series, PeriodKey(kept[k], month_num))]

\* jul_temps / jan_temps: the month's T2M values of the years in range.
month_temps(series, month_num, start_year, end_year) ==
  SelectSeq([i \in 1..(end_year - start_year + 1) |->
               Get(series, PeriodKey(start_year + i - 1, month_num))],
            NotSentinel)

HasNone(values) == \E i \in 1..Len(values) : values[i] = None

temperature_block(jan_temps, jul_temps) ==
  [jan_mean_std |-> round_std(_std(jan_temps), 1, 2),
   jul_mean_std |-> round_std(_std(jul_temps), 1, 2),
   thermal_amplitude_mean |->
     round(sum(jul_temps) * Len(jan_temps) - sum(jan_temps) * Len(jul_temps),
           Len(jul_temps) * Len(jan_temps), 2)]

\* The block built only where the two lists pair up year by year.
BothLists_same_length(jul_temps, jan_temps) ==
  jul_temps # <<>> /\ jan_temps # <<>> /\ Len(jul_temps) = Len(jan_temps)

\* "if jul_temps and jan_temps"
BothLists(jul_temps, jan_temps) == jul_temps # <<>> /\ jan_temps # <<>>

\* _compute_variability: Return(variability), or Raise(TypeError) when the
\* temperature block sums a list that holds None.
_compute_variability(params_data, start_year, end_year) ==
  LET ap == IF "PRECTOTCORR" \in DOMAIN params_data
            THEN annual_precip(params_data["PRECTOTCORR"], start_year, end_year)
            ELSE <<>>
      has_t == "T2M" \in DOMAIN params_data
      jul_temps == IF has_t
                   THEN month_temps(params_data["T2M"], 7, start_year, end_year)
                   ELSE <<>>
      jan_temps == IF has_t
                   THEN month_temps(params_data["T2M"], 1, start_year, end_year)
                   ELSE <<>>
      temp == BothLists(jul_temps, jan_temps)
      blocks == (IF ap # <<>> THEN {"precipitation"} ELSE {})
                \cup (IF temp THEN {"temperature"} ELSE {})
  IN  IF temp /\ (HasNone(jan_temps) \/ HasNone(jul_temps))
      THEN Raise("TypeError", "unsupported operand type(s)")
      ELSE Return([b \in blocks |->
                     IF b = "precipitation" THEN precipitation_block(ap)
                     ELSE temperature_block(jan_temps, jul_temps)])

\* ------------------------------------------------ process_monthly_data
\* The body of process_monthly_data once params_data is in hand: the four
\* reductions.  Return(profile), or what _compute_variability raises.
build_profile(params_data, start_year, end_year) ==
  LET variability == _compute_variability(params_data, start_year, end_year)
  IN  IF variability.raised THEN variability
      ELSE Return(
        [monthly_climatology |-> monthly_clim(params_data, start_year, end_year),
         annual_summary      |-> annual(params_data, start_year, end_year),
         yearly_data         |-> yearly_data(params_data, start_year, end_year),
         variability         |-> variability.value])

\* A response read the lenient way: a missing container reads as empty.
process_monthly_data_get(api_response, start_year, end_year) ==
  build_profile(
    IF "properties" \in DOMAIN api_response
       /\ "parameter" \in DOMAIN api_response["properties"]
    THEN api_response["properties"]["parameter"] ELSE <<>>,
    start_year, end_year)

\* params_data = api_response["properties"]["parameter"] raises KeyError for
\* a response without the containers.
process_monthly_data(api_response, start_year, end_year) ==
  IF "properties" \notin DOMAIN api_response
  THEN Raise("KeyError", "'properties'")
  ELSE IF "parameter" \notin DOMAIN api_response["properties"]
  THEN Raise("KeyError", "'parameter'")
  ELSE build_profile(api_response["properties"]["parameter"],
                     start_year, end_year)

\* ------------------------------------------------- utils/config.py
\* YAML values.  A scalar is [kind, text], a list [kind |-> "list"], null
\* (Python None) YNone, and a mapping [kind |-> "dict", items |-> the
\* function from its keys to their values].  A string used as a key is the
\* sequence of its characters.
YNone == [kind |-> "none"]

YScalar(kind, text) == [kind |-> kind, text |-> text]

YList == [kind |-> "list"]

YDict(items) == [kind |-> "dict", items |-> items]

\* The test by truth value: None, 0, False and "" all fail it.
IsNone_falsy(value) ==
  value \in {YNone, YScalar("int", "0"), YScalar("bool", "False"),
             YScalar("str", "")}

\* value is None
IsNone(value) == value = YNone

\* isinstance(value, dict)
IsDict(value) == value.kind = "dict"

\* key.split("."): the segments between the dots, empty ones included.
RECURSIVE split(_)
split(key) ==
  IF \A i \in 1..Len(key) : key[i] # "." THEN <<key>>
  ELSE LET dot == CHOOSE i \in 1..Len(key) :
                    key[i] = "." /\ \A j \in 1..(i - 1) : key[j] # "."
       IN  <<SubSeq(key, 1, dot - 1)>> \o split(SubSeq(key, dot + 1, Len(key)))

\* value.get(k): the stored value, or None for a key the mapping lacks.
DictGet(value, k) ==
  IF k \in DOMAIN value.items THEN value.items[k] ELSE YNone

\* The loop "for k in keys" from value on, and the final "return value".
RECURSIVE Descend(_, _, _)
Descend(value, keys, default) ==
  IF keys = <<>> THEN value
  ELSE IF IsDict(value)
  THEN LET next == DictGet(value, Head(keys))
       IN  IF IsNone(next) THEN default
           ELSE Descend(next, Tail(keys), default)
  ELSE default

\* Config.get(key, default) on the loaded data.
Config_get(data, key, default) == Descend(data, split(key), default)

\* ------------------------------------ utils/config.py: the cached instance
\* What a path holds: no file, a file that is not YAML, or a file with one
\* of two contents.
FileStates == {"missing", "malformed", "settings_a", "settings_b"}

\* Config(config_path), as the n-th construction attempted on the files
\* given: the object made, or what __init__ raises.  An object is told from
\* another by its id.
Config_init(files, config_path, n) ==
  IF files[config_path] = "missing"
  THEN Raise("FileNotFoundError", <<"Config file not found: ", config_path>>)
  ELSE IF files[config_path] = "malformed"
  THEN Raise("YAMLError", "while parsing")
  ELSE Return([id |-> n, config_path |-> config_path,
               data |-> files[config_path]])

\* _config_instance is <<>> for None and <<instance>> otherwise.
\* "if _config_instance is None: _config_instance = Config(...)": the new
\* cache and the number of objects made; a raise leaves the assignment undone.
Cached(cache, made, attempt) ==
  IF cache # <<>> THEN [cache |-> cache, made |-> made,
                        result |-> Return(cache[1])]
  ELSE IF attempt.raised THEN [cache |-> <<>>, made |-> made,
                                result |-> attempt]
  ELSE [cache |-> <<attempt.value>>, made |-> made + 1,
        result |-> Return(attempt.value)]

\* A cache kept per path: a call with another path constructs again.
load_config_per_path(cache, made, files, config_path) ==
  IF cache # <<>> /\ cache[1].config_path # config_path
  THEN Cached(<<>>, made, Config_init(files, config_path, made + 1))
  ELSE Cached(cache, made, Config_init(files, config_path, made + 1))

load_config(cache, made, files, config_path) ==
  Cached(cache, made, Config_init(files, config_path, made + 1))

\* Config(): config_path defaults to "config.yaml".
get_config(cache, made, files) ==
  Cached(cache, made, Config_init(files, "config.yaml", made + 1))

\* ------------------------------------------------- utils/logger.py
\* What getattr(logging, name) finds for the upper-case names the logging
\* module defines: the levels, which are integers, and BASIC_FORMAT, which
\* is a string.
logging_attrs ==
  [name \in {"CRITICAL", "FATAL", "ERROR", "WARNING", "WARN", "INFO",
             "DEBUG", "NOTSET", "BASIC_FORMAT"} |->
     IF name = "BASIC_FORMAT" THEN [is_int |-> FALSE, value |-> 0]
     ELSE [is_int |-> TRUE,
           value |-> CASE name \in {"CRITICAL", "FATAL"} -> 50
                       [] name = "ERROR" -> 40
                       [] name \in {"WARNING", "WARN"} -> 30
                       [] name = "INFO" -> 20
                       [] name = "DEBUG" -> 10
                       [] OTHER -> 0]]

\* logging.INFO
INFO == 20

\* The log_level arguments of the model, each with its log_level.upper().
upper ==
  [s \in {"INFO", "debug", "Warning", "verbose", "basic_format"} |->
     CASE s = "debug" -> "DEBUG"
       [] s = "Warning" -> "WARNING"
       [] s = "verbose" -> "VERBOSE"
       [] s = "basic_format" -> "BASIC_FORMAT"
       [] OTHER -> s]

\* getattr(logging, log_level.upper(), logging.INFO)
numeric_level(log_level) ==
  IF upper[log_level] \in DOMAIN logging_attrs
  THEN logging_attrs[upper[log_level]]
  ELSE [is_int |-> TRUE, value |-> INFO]

\* log_file is <<>> for None and <<path>> otherwise; "if log_file:" holds
\* for a path that is not the empty string.
Truthy(log_file) == log_file # <<>> /\ log_file[1] # ""

console_handler(lvl) == [kind |-> "console", level |-> lvl, path |-> ""]

file_handler(lvl, log_path) ==
  [kind |-> "file", level |-> lvl, path |-> log_path]

\* setup_logging on a logger with the handlers and the level given; blocked
\* are the paths whose directory cannot be made or whose file cannot be
\* opened.  logger.setLevel raises for a value that is neither an integer nor
\* a level name, before the handlers are cleared; mkdir and FileHandler
\* raise after the console handler is installed.
setup_logging(old_handlers, old_level, log_level, log_file, blocked) ==
  LET numeric == numeric_level(log_level)
      lvl == numeric.value
  IN  IF ~numeric.is_int
      THEN [handlers |-> old_handlers, level |-> old_level,
            result |-> Raise("ValueError", "Unknown level")]
      ELSE IF ~Truthy(log_file)
      THEN [handlers |-> <<console_handler(lvl)>>, level |-> lvl,
            result |-> Return("agroai_sim")]
      ELSE IF log_file[1] \in blocked
      THEN [handlers |-> <<console_handler(lvl)>>, level |-> lvl,
            result |-> Raise("OSError", log_file[1])]
      ELSE [handlers |-> <<console_handler(lvl),
                           file_handler(lvl, log_file[1])>>,
            level |-> lvl,
            result |-> Return("agroai_sim")]

\* ------------------------- process_monthly_data's effect on its argument
\* The reads of the record are "param in params_data" and
\* params_data[param].get(key, -999).  What a read leaves of the mapping it
\* reads is modelled with it: a lookup that stores the default it returns.
AfterGet_setdefault(series, key) ==
  IF key \in DOMAIN series THEN series ELSE (key :> MISSING) @@ series

\* dict.get(key, -999) returns the default and leaves the mapping as it is.
AfterGet(series, key) == series

\* The period keys the reductions look up, in order.
ReadKeys(start_year, end_year) ==
  [i \in 1..((end_year - start_year + 1) * NumMonths) |->
     PeriodKey(start_year + ((i - 1) \div NumMonths),
               ((i - 1) % NumMonths) + 1)]

RECURSIVE AfterGets(_, _)
AfterGets(series, keys) ==
  IF keys = <<>> THEN series
  ELSE AfterGets(AfterGet(series, Head(keys)), Tail(keys))

\* api_response as process_monthly_data (and _compute_variability within
\* it) leaves it: every parameter of PARAMETERS in the record is looked up
\* at every period key of the range; a response that lacks a container is
\* only indexed.
response_after(api_response, start_year, end_year) ==
  IF "properties" \notin DOMAIN api_response
     \/ "parameter" \notin DOMAIN api_response["properties"]
  THEN api_response
  ELSE LET params_data == api_response["properties"]["parameter"]
           read == {PARAMETERS[i] : i \in 1..Len(PARAMETERS)}
       IN  [properties |->
              [parameter |->
                 [param \in DOMAIN params_data |->
                    IF param \in read
                    THEN AfterGets(params_data[param],
                                   ReadKeys(start_year, end_year))
                    ELSE params_data[param]]]]

\* ------------------------------------------------------------ inputs
\* The years the fetched records hold data for, and the year ranges asked.
DataYears == DefaultStart..(DefaultStart + MaxYears - 1)

Months == 1..NumMonths

\* (args.start, args.end): every range of 0..MaxYears years from --start.
YearRanges ==
  {<<DefaultStart, e>> : e \in (DefaultStart - 1)..(DefaultStart + MaxYears - 1)}

\* The parameters the records of the model carry.
DataParams == {"PRECTOTCORR", "T2M", "RH2M"}

\* Two value patterns: precipitation constant 1.0 mm/day with a seasonal
\* temperature, and values that vary with month and year (zero and negative
\* values included).
BaseValue(pat, param, year, month) ==
  IF pat = 1
  THEN (IF param = "PRECTOTCORR" THEN 1
        ELSE IF param = "T2M" THEN 10 + month
        ELSE 50)
  ELSE (IF param = "PRECTOTCORR" THEN (month + year) % 3
        ELSE IF param = "T2M" THEN month - 3 * (year - DefaultStart)
        ELSE 40 + (year - DefaultStart))

\* How a missing entry shows in a record.
HoleKinds == {"absent", "null", "sentinel"}

\* The month sets a record may miss in a year: up to MaxHoles months
\* missing, or up to MaxHoles months left.
MonthSets ==
  {HM \in SUBSET Months :
     \/ Cardinality(HM) <= MaxHoles
     \/ Cardinality(HM) >= NumMonths - MaxHoles}

\* The year sets the holes fall in: one year, or every year.
YearSets == {{y} : y \in DataYears} \cup {DataYears}

\* One parameter's series: the pattern, with the entries of months HM of
\* years HY missing in the given way.
Series(pat, param, HY, HM, kind) ==
  LET hole(y, m) == y \in HY /\ m \in HM
      cells == {<<y, m>> \in DataYears \X Months :
                  ~(hole(y, m) /\ kind = "absent")}
  IN  [key \in {PeriodKey(c[1], c[2]) : c \in cells} |->
         LET y == key \div 100
             m == key % 100
         IN  IF hole(y, m)
             THEN (IF kind = "null" THEN None ELSE MISSING)
             ELSE BaseValue(pat, param, y, m)]

\* params_data with the parameters ps, parameter hp holed.
Record(pat, ps, hp, HY, HM, kind) ==
  [param \in ps |->
     IF param = hp THEN Series(pat, param, HY, HM, kind)
     ELSE Series(pat, param, {}, {}, "absent")]

Response(params_data) == [properties |-> [parameter |-> params_data]]

\* Responses of an unexpected shape: no "properties", no "parameter".
MalformedResponses ==
  {[messages |-> "error"], [properties |-> [units |-> "none"]]}

\* The well-formed records process_monthly_data is given.
ProcRecords ==
  {Record(pat, DataParams, hp, HY, HM, kind) :
     pat \in 1..2, hp \in {"PRECTOTCORR", "T2M"},
     HY \in YearSets, HM \in MonthSets, kind \in HoleKinds}
  \cup {Record(1, ps, "T2M", {}, {}, "absent") : ps \in SUBSET DataParams}

\* ------------------------------------------------------------- state
VARIABLES
  start_year,   \* args.start
  end_year,     \* args.end
  registry,     \* zones.items(): the zone ids in iteration order
  idx,          \* position of the batch loop in registry
  pc,           \* where the program is
  raw,          \* what fetch_nasa_power gave: Return(response) or Raise;
                \* where one function is specified on its own, its argument
  exc,          \* the exception being handled by "except Exception as e"
  result,       \* what process_monthly_data gave
  zones_out,    \* climate_profiles["zones"]
  output_file,  \* the zones mapping json.dump wrote
  fetch_log,    \* what fetch_nasa_power gave for each zone so far, in order
  _config_instance, \* utils/config.py's global: <<>> (None) or <<instance>>
  config_files, \* what each configuration path holds on disk
  constructed,  \* the number of Config objects made so far
  handlers,     \* logging.getLogger("agroai_sim").handlers
  level,        \* logging.getLogger("agroai_sim").level
  calls         \* the number of calls of utils made so far

\* The state of the climate pipeline, and the state of utils.
pipeline_vars ==
  <<start_year, end_year, registry, idx, exc, zones_out, output_file,
    fetch_log>>

utils_vars ==
  <<_config_instance, config_files, constructed, handlers, level, calls>>

vars ==
  <<start_year, end_year, registry, idx, pc, raw, exc, result, zones_out,
    output_file, fetch_log, utils_vars>>

\* utils before any call: nothing cached, a logger with no handler at NOTSET.
UtilsIdle ==
  /\ _config_instance = <<>>
  /\ config_files = <<>>
  /\ constructed = 0
  /\ handlers = <<>>
  /\ level = 0
  /\ calls = 0

\* The pipeline where utils is specified on its own.
PipelineIdle ==
  /\ start_year = DefaultStart
  /\ end_year = DefaultStart
  /\ registry = <<>>
  /\ idx = 0
  /\ exc = [type |-> "", msg |-> ""]
  /\ zones_out = <<>>
  /\ output_file = [written |-> FALSE, zones |-> <<>>]
  /\ fetch_log = <<>>

NoFile == [written |-> FALSE, zones |-> <<>>]

NoExc == [type |-> "", msg |-> ""]

NoCall == [raised |-> FALSE, value |-> <<>>]

\* ------------------------------------- process_monthly_data, on its own
InitProc ==
  /\ \E yr \in YearRanges : start_year = yr[1] /\ end_year = yr[2]
  /\ raw \in {Return(Response(r)) : r \in ProcRecords}
  /\ registry = <<>>
  /\ idx = 0
  /\ pc = "call"
  /\ exc = NoExc
  /\ result = NoCall
  /\ zones_out = <<>>
  /\ output_file = NoFile
  /\ fetch_log = <<>>
  /\ UtilsIdle

CallProcess ==
  /\ pc = "call"
  /\ result' = process_monthly_data(raw.value, start_year, end_year)
  /\ pc' = "returned"
  /\ UNCHANGED utils_vars
  /\ UNCHANGED <<start_year, end_year, registry, idx, raw, exc, zones_out,
                 output_file, fetch_log>>

NextProc == CallProcess

SpecProc == InitProc /\ [][NextProc]_vars

\* --------------------------------- process_monthly_data, called twice
\* The records of the two calls: complete, or with January, February or
\* every month of some years missing in each of the three ways.
PureRecords ==
  {Record(pat, DataParams, hp, HY, HM, kind) :
     pat \in 1..2, hp \in {"PRECTOTCORR", "T2M"},
     HY \in YearSets, HM \in {{}, {1}, {2}, Months}, kind \in HoleKinds}

InitPure ==
  /\ \E yr \in YearRanges : start_year = yr[1] /\ end_year = yr[2]
  /\ raw \in {Return(Response(r)) : r \in PureRecords}
            \cup {Return(resp) : resp \in MalformedResponses}
  /\ registry = <<>>
  /\ idx = 0
  /\ pc = "call"
  /\ exc = NoExc
  /\ result = NoCall
  /\ zones_out = <<>>
  /\ output_file = NoFile
  /\ fetch_log = <<>>
  /\ UtilsIdle

\* process_monthly_data(raw, start, end): its result, and raw as it leaves it.
FirstCall ==
  /\ pc = "call"
  /\ result' = process_monthly_data(raw.value, start_year, end_year)
  /\ raw' = Return(response_after(raw.value, start_year, end_year))
  /\ pc' = "returned"
  /\ UNCHANGED utils_vars
  /\ UNCHANGED <<start_year, end_year, registry, idx, exc, zones_out,
                 output_file, fetch_log>>

\* The same call once more, on the record as the first call left it.
SecondCall ==
  /\ pc = "returned"
  /\ result' = process_monthly_data(raw.value, start_year, end_year)
  /\ raw' = Return(response_after(raw.value, start_year, end_year))
  /\ pc' = "returned_again"
  /\ UNCHANGED utils_vars
  /\ UNCHANGED <<start_year, end_year, registry, idx, exc, zones_out,
                 output_file, fetch_log>>

NextPure == FirstCall \/ SecondCall

SpecPure == InitPure /\ [][NextPure]_vars

\* ---------------------------------------------------- _std, on its own
\* The values of a list, in hundredths as the response writes them (0.1 is
\* 10): zero, values with no exact binary form, and whole numbers.
StdValues == {0, 10, 25, 100, 300, 1234}

StdLists == UNION {[1..n -> StdValues] : n \in 0..MaxSamples}

\* The floats the list's literals read as.
AsFloats(hundredths) ==
  [i \in 1..Len(hundredths) |-> FromDecimal(hundredths[i], 100)]

InitStd ==
  /\ start_year = DefaultStart
  /\ end_year = DefaultStart
  /\ raw \in {Return(v) : v \in StdLists}
  /\ registry = <<>>
  /\ idx = 0
  /\ pc = "std_call"
  /\ exc = NoExc
  /\ result = NoCall
  /\ zones_out = <<>>
  /\ output_file = NoFile
  /\ fetch_log = <<>>
  /\ UtilsIdle

CallStd ==
  /\ pc = "std_call"
  /\ result' = Return(_std_binary64(AsFloats(raw.value)))
  /\ pc' = "std_returned"
  /\ UNCHANGED utils_vars
  /\ UNCHANGED <<start_year, end_year, registry, idx, raw, exc, zones_out,
                 output_file, fetch_log>>

NextStd == CallStd

SpecStd == InitStd /\ [][NextStd]_vars

\* ------------------------- the precipitation variability, on its own
\* Annual totals in quarter mm: 0, 100, 300 and 500 mm.
TotalValues == {0, 400, 1200, 2000}

\* The lists of qualifying totals: every list of up to MaxTotals of the
\* values, and lists whose mean is zero or negative.
TotalLists ==
  UNION {[1..n -> TotalValues] : n \in 0..MaxTotals}
  \cup {<<-400>>, <<-400, 400>>, <<-2000, 400>>, <<-400, 0, 400>>}

InitVar ==
  /\ start_year = DefaultStart
  /\ end_year = DefaultStart
  /\ raw \in {Return(v) : v \in TotalLists}
  /\ registry = <<>>
  /\ idx = 0
  /\ pc = "var_call"
  /\ exc = NoExc
  /\ result = NoCall
  /\ zones_out = <<>>
  /\ output_file = NoFile
  /\ fetch_log = <<>>
  /\ UtilsIdle

CallVar ==
  /\ pc = "var_call"
  /\ result' = Return(precipitation_variability(raw.value))
  /\ pc' = "var_returned"
  /\ UNCHANGED utils_vars
  /\ UNCHANGED <<start_year, end_year, registry, idx, raw, exc, zones_out,
                 output_file, fetch_log>>

NextVar == CallVar

SpecVar == InitVar /\ [][NextVar]_vars

\* ------------------------------------------------ Config.get, on its own
\* Scalars a YAML file may hold, the falsy ones among them.
Leaves ==
  {YNone, YList, YScalar("int", "0"), YScalar("int", "5"),
   YScalar("bool", "False"), YScalar("str", "")}

KeyA == <<"a">>

KeyB == <<"b">>

\* Mappings with no mapping inside.
InnerDicts ==
  {YDict(<<>>)} \cup {YDict(k :> leaf) : k \in {KeyA, KeyB}, leaf \in Leaves}

\* What yaml.safe_load may give: a mapping of depth up to 2, or something
\* that is no mapping (an empty file loads as None).
ConfigData ==
  {YNone, YList, YScalar("int", "5"), YDict(<<>>)}
  \cup {YDict(KeyA :> v) : v \in Leaves \cup InnerDicts}
  \cup {YDict((KeyA :> v) @@ (KeyB :> w)) :
          v \in Leaves \cup InnerDicts,
          w \in {YScalar("int", "0"), YDict(KeyB :> YScalar("int", "5"))}}

\* The keys asked for: every string of up to MaxKeyLen of these characters.
KeyChars == {"a", "b", "."}

ConfigKeys == UNION {[1..n -> KeyChars] : n \in 0..MaxKeyLen}

ConfigDefaults == {YNone, YScalar("int", "42")}

InitConfig ==
  /\ start_year = DefaultStart
  /\ end_year = DefaultStart
  /\ raw \in {Return([data |-> d, key |-> k, default |-> dflt]) :
                d \in ConfigData, k \in ConfigKeys, dflt \in ConfigDefaults}
  /\ registry = <<>>
  /\ idx = 0
  /\ pc = "get_call"
  /\ exc = NoExc
  /\ result = NoCall
  /\ zones_out = <<>>
  /\ output_file = NoFile
  /\ fetch_log = <<>>
  /\ UtilsIdle

CallGet ==
  /\ pc = "get_call"
  /\ result' = Return(Config_get(raw.value.data, raw.value.key,
                                 raw.value.default))
  /\ pc' = "get_returned"
  /\ UNCHANGED utils_vars
  /\ UNCHANGED <<start_year, end_year, registry, idx, raw, exc, zones_out,
                 output_file, fetch_log>>

NextConfig == CallGet

SpecConfig == InitConfig /\ [][NextConfig]_vars

\* ----------------------------------- load_config and get_config, on their own
ConfigPaths == {"config.yaml", "alt.yaml"}

InitCache ==
  /\ PipelineIdle
  /\ pc = "config"
  /\ raw = NoCall
  /\ result = NoCall
  /\ _config_instance = <<>>
  /\ config_files \in [ConfigPaths -> FileStates]
  /\ constructed = 0
  /\ handlers = <<>>
  /\ level = 0
  /\ calls = 0

\* load_config(config_path); raw keeps the call made.
LoadConfig ==
  /\ calls < MaxCalls
  /\ \E config_path \in ConfigPaths :
       LET after == load_config(_config_instance, constructed, config_files,
                                config_path)
       IN  /\ _config_instance' = after.cache
           /\ constructed' = after.made
           /\ result' = after.result
           /\ raw' = Return([call |-> "load_config",
                             config_path |-> config_path])
  /\ calls' = calls + 1
  /\ UNCHANGED <<pipeline_vars, pc, config_files, handlers, level>>

\* get_config()
GetConfig ==
  /\ calls < MaxCalls
  /\ LET after == get_config(_config_instance, constructed, config_files)
     IN  /\ _config_instance' = after.cache
         /\ constructed' = after.made
         /\ result' = after.result
         /\ raw' = Return([call |-> "get_config",
                           config_path |-> "config.yaml"])
  /\ calls' = calls + 1
  /\ UNCHANGED <<pipeline_vars, pc, config_files, handlers, level>>

\* The environment writes, spoils or removes a configuration file between
\* two calls.
WriteFile ==
  /\ \E config_path \in ConfigPaths : \E content \in FileStates :
       /\ content # config_files[config_path]
       /\ config_files' = [config_files EXCEPT ![config_path] = content]
  /\ UNCHANGED <<pipeline_vars, pc, raw, result, _config_instance,
                 constructed, handlers, level, calls>>

NextCache == LoadConfig \/ GetConfig \/ WriteFile

SpecCache == InitCache /\ [][NextCache]_vars

\* ---------------------------------------------- setup_logging, on its own
LogLevels == DOMAIN upper

\* None, the empty string, two paths, and a path that cannot be opened.
LogFiles ==
  {<<>>, <<"">>, <<"logs/sim.log">>, <<"logs/run.log">>, <<"blocked/sim.log">>}

BlockedPaths == {"blocked/sim.log"}

InitLog ==
  /\ PipelineIdle
  /\ pc = "logging"
  /\ raw = NoCall
  /\ result = NoCall
  /\ UtilsIdle

\* setup_logging(log_level, log_file); raw keeps the call made.
SetupLogging ==
  /\ calls < MaxCalls
  /\ \E log_level \in LogLevels : \E log_file \in LogFiles :
       LET after == setup_logging(handlers, level, log_level, log_file,
                                  BlockedPaths)
       IN  /\ handlers' = after.handlers
           /\ level' = after.level
           /\ result' = after.result
           /\ raw' = Return([log_level |-> log_level, log_file |-> log_file])
  /\ calls' = calls + 1
  /\ UNCHANGED <<pipeline_vars, pc, _config_instance, config_files,
                 constructed>>

NextLog == SetupLogging

SpecLog == InitLog /\ [][NextLog]_vars

\* ------------------------------------------------------ main's batch
ZoneIds == 1..NumZones

\* zones[zone_id]: {name, representative_point: {lat, lon, label}}.
zone_data(zone_id) ==
  [name |-> <<"zone", zone_id>>,
   representative_point |->
     [lat |-> 30 + zone_id, lon |-> -zone_id, label |-> <<"point", zone_id>>]]

\* The registries load_zones may give: the zone ids 1..n in any order.
Registries ==
  {reg \in UNION {[1..n -> 1..n] : n \in 0..NumZones} :
     \A i, j \in DOMAIN reg : reg[i] = reg[j] => i = j}

\* The records the fetches of a batch give: complete; a month of one year at
\* the sentinel; January temperature null in every year; humidity only.
BatchRecords ==
  {Record(1, DataParams, "T2M", {}, {}, "absent"),
   Record(2, DataParams, "PRECTOTCORR", {DefaultStart}, {2}, "sentinel"),
   Record(1, DataParams, "T2M", DataYears, {1}, "null"),
   Record(2, {"RH2M"}, "RH2M", {}, {}, "absent")}

\* What a call of fetch_nasa_power ends with: the transport errors it
\* re-raises, json.loads failing, or the decoded response.
TransportErrors ==
  {Raise("HTTPError", "HTTP Error 500: Internal Server Error"),
   Raise("URLError", "<urlopen error timed out>")}

FetchOutcomes ==
  TransportErrors
  \cup {Raise("JSONDecodeError", "Expecting value: line 1 column 1 (char 0)")}
  \cup {Return(resp) : resp \in MalformedResponses}
  \cup {Return(Response(r)) : r \in BatchRecords}

Init ==
  /\ start_year = DefaultStart
  /\ end_year = DefaultStart + MaxYears - 1
  /\ registry \in Registries
  /\ idx = 1
  /\ pc = "loop"
  /\ raw = NoCall
  /\ exc = NoExc
  /\ result = NoCall
  /\ zones_out = <<>>
  /\ output_file = NoFile
  /\ fetch_log = <<>>
  /\ UtilsIdle

\* The zone the loop is at.
zone_id == registry[idx]

\* The zones mapping rebound to the one entry instead of updated.
SetZone_rebind(doc) == (zone_id :> doc)

\* climate_profiles["zones"][zone_id] = doc
SetZone(doc) == (zone_id :> doc) @@ zones_out

\* A profile object shared across the zones: once a zone has a profile, the
\* later ones get that same profile.
ProfileDoc_shared(zd, profile) ==
  LET earlier == {z \in DOMAIN zones_out :
                    "climate_profile" \in DOMAIN zones_out[z]}
  IN  [zone_name |-> zd.name,
       representative_point |-> zd.representative_point,
       climate_profile |->
         IF earlier = {} THEN profile
         ELSE zones_out[CHOOSE z \in earlier : TRUE].climate_profile]

ProfileDoc(zd, profile) ==
  [zone_name |-> zd.name,
   representative_point |-> zd.representative_point,
   climate_profile |-> profile]

\* An error document that keeps a climate_profile key as well.
ErrorDoc_with_profile(zd, e) ==
  [zone_name |-> zd.name,
   representative_point |-> zd.representative_point,
   climate_profile |-> <<>>,
   error |-> str(e)]

ErrorDoc(zd, e) ==
  [zone_name |-> zd.name,
   representative_point |-> zd.representative_point,
   error |-> str(e)]

\* raw = fetch_nasa_power(...): it returns the response or raises.
Fetch ==
  /\ pc = "loop"
  /\ idx <= Len(registry)
  /\ \E outcome \in FetchOutcomes :
       /\ raw' = outcome
       /\ exc' = IF outcome.raised THEN outcome.exc ELSE NoExc
       /\ pc' = IF outcome.raised THEN "except" ELSE "process"
       /\ fetch_log' = Append(fetch_log, outcome)
  /\ UNCHANGED utils_vars
  /\ UNCHANGED <<start_year, end_year, registry, idx, result, zones_out,
                 output_file>>

\* profile = process_monthly_data(raw, ...) and, when it returns, the zone's
\* document.
Process ==
  /\ pc = "process"
  /\ LET r == process_monthly_data(raw.value, start_year, end_year)
     IN  /\ result' = r
         /\ IF r.raised
            THEN /\ exc' = r.exc
                 /\ pc' = "except"
                 /\ UNCHANGED zones_out
            ELSE /\ zones_out' = SetZone(ProfileDoc(zone_data(zone_id), r.value))
                 /\ pc' = "sleep"
                 /\ UNCHANGED exc
  /\ UNCHANGED utils_vars
  /\ UNCHANGED <<start_year, end_year, registry, idx, raw, output_file,
                 fetch_log>>

\* The handler leaving the iteration at once, without the delay.
Except_continue ==
  /\ pc = "except"
  /\ zones_out' = SetZone(ErrorDoc(zone_data(zone_id), exc))
  /\ idx' = idx + 1
  /\ pc' = "loop"
  /\ UNCHANGED utils_vars
  /\ UNCHANGED <<start_year, end_year, registry, raw, exc, result,
                 output_file, fetch_log>>

\* except Exception as e: the zone's error document.
Except ==
  /\ pc = "except"
  /\ zones_out' = SetZone(ErrorDoc(zone_data(zone_id), exc))
  /\ pc' = "sleep"
  /\ UNCHANGED utils_vars
  /\ UNCHANGED <<start_year, end_year, registry, idx, raw, exc, result,
                 output_file, fetch_log>>

\* time.sleep(2), then the next zone.
Sleep ==
  /\ pc = "sleep"
  /\ idx' = idx + 1
  /\ pc' = "loop"
  /\ UNCHANGED utils_vars
  /\ UNCHANGED <<start_year, end_year, registry, raw, exc, result, zones_out,
                 output_file, fetch_log>>

\* The loop is over: json.dump(climate_profiles, f).
Save ==
  /\ pc = "loop"
  /\ idx > Len(registry)
  /\ output_file' = [written |-> TRUE, zones |-> zones_out]
  /\ pc' = "summary"
  /\ UNCHANGED utils_vars
  /\ UNCHANGED <<start_year, end_year, registry, idx, raw, exc, result,
                 zones_out, fetch_log>>

\* Whether the quick summary can format a zone's line: '?' stands in for a
\* missing mean, and '?' cannot be formatted with :.0f or :.1f.
SummaryLineOk(zdata) ==
  \/ "error" \in DOMAIN zdata
  \/ /\ <<"PRECTOTCORR", "_annual_total_mm">>
          \in DOMAIN zdata.climate_profile.annual_summary
     /\ <<"T2M", "_annual_mean">>
          \in DOMAIN zdata.climate_profile.annual_summary

\* The quick summary loop.
QuickSummary ==
  /\ pc = "summary"
  /\ pc' = IF \A z \in DOMAIN zones_out : SummaryLineOk(zones_out[z])
           THEN "done" ELSE "crashed"
  /\ UNCHANGED utils_vars
  /\ UNCHANGED <<start_year, end_year, registry, idx, raw, exc, result,
                 zones_out, output_file, fetch_log>>

Next == Fetch \/ Process \/ Except \/ Sleep \/ Save \/ QuickSummary

Spec == Init /\ [][Next]_vars

\* ============================================================ claims
ErrorKeys == {"zone_name", "representative_point", "error"}

ProfileDocKeys == {"zone_name", "representative_point", "climate_profile"}

ProfileKeys ==
  {"monthly_climatology", "annual_summary", "yearly_data", "variability"}

\* A complete document: the zone's name and point with a four-part profile.
CompleteDoc(doc) ==
  /\ DOMAIN doc = ProfileDocKeys
  /\ DOMAIN doc.climate_profile = ProfileKeys

\* The fetch returned a response that holds properties.parameter.
FetchSucceeded(outcome) ==
  /\ ~outcome.raised
  /\ "properties" \in DOMAIN outcome.value
  /\ "parameter" \in DOMAIN outcome.value["properties"]

\* The fetch returned a response without properties.parameter.
MalformedFetch(outcome) == ~outcome.raised /\ ~FetchSucceeded(outcome)

\* The positions of the registry whose document has been recorded.
Recorded == {i \in 1..Len(fetch_log) : registry[i] \in DOMAIN zones_out}

RegistryIds == {registry[i] : i \in 1..Len(registry)}

\* C1: a zone whose fetch raised a transport error has a document of exactly
\* zone_name, representative_point and error, and every other zone of the
\* batch whose fetch succeeded has a complete document with climate_profile,
\* wherever the failing zone stands in the registry.
C1_TransportErrorIsolated ==
  \A i \in Recorded :
    /\ fetch_log[i] \in TransportErrors
         => DOMAIN zones_out[registry[i]] = ErrorKeys
    /\ (/\ FetchSucceeded(fetch_log[i])
        /\ \E j \in 1..Len(fetch_log) : j # i /\ fetch_log[j] \in TransportErrors)
         => CompleteDoc(zones_out[registry[i]])

\* C2: when the loop ends the zones mapping has exactly one entry per
\* registry zone id, each a profile or an error document; at the top of the
\* loop the zones handled so far are exactly those with an entry; no
\* exception leaves the loop (the program ends abnormally only after the
\* output was written): a raised exception is always handled, and the loop
\* then goes on.
C2_BatchFullyPopulated ==
  /\ pc = "loop" => DOMAIN zones_out = {registry[i] : i \in 1..(idx - 1)}
  /\ output_file.written =>
       /\ DOMAIN output_file.zones = RegistryIds
       /\ \A z \in RegistryIds :
            DOMAIN output_file.zones[z] \in {ErrorKeys, ProfileDocKeys}
  /\ pc = "crashed" => output_file.written
  /\ pc = "except" => ENABLED Except
  /\ pc = "sleep" => ENABLED Sleep
  /\ pc = "loop" => (idx <= Len(registry) \/ ENABLED Save)

\* The whole registry was handled, with a failure and a success in it.
C2_Witness ==
  /\ output_file.written
  /\ Len(registry) = NumZones
  /\ \E z \in RegistryIds : DOMAIN output_file.zones[z] = ErrorKeys
  /\ \E z \in RegistryIds : DOMAIN output_file.zones[z] = ProfileDocKeys

\* C3: a response without properties.parameter ends as the zone's error
\* document {zone_name, representative_point, error}, error being the
\* string of the KeyError, at the boundary that catches a transport error;
\* the loop goes on to the zones after it.
C3_MalformedCaught ==
  /\ \A i \in 1..Len(fetch_log) :
       (MalformedFetch(fetch_log[i]) /\ (i < idx \/ pc = "sleep")) =>
         /\ registry[i] \in DOMAIN zones_out
         /\ DOMAIN zones_out[registry[i]] = ErrorKeys
         /\ zones_out[registry[i]].error \in {"'properties'", "'parameter'"}
  /\ (pc = "process" /\ MalformedFetch(raw)) => ENABLED Process
  /\ (pc = "except" /\ exc.type = "KeyError") => ENABLED Except

\* A malformed response became an error document and a later zone was
\* handled after it.
C3_Witness ==
  \E i \in Recorded :
    /\ MalformedFetch(fetch_log[i])
    /\ DOMAIN zones_out[registry[i]] = ErrorKeys
    /\ \E j \in Recorded : j > i /\ CompleteDoc(zones_out[registry[j]])

\* ---------------------------------------- process_monthly_data's claims
\* The record process_monthly_data was called with, and its year range.
CalledData == raw.value["properties"]["parameter"]

RangeYears == start_year..end_year

ReturnedProfile == pc = "returned" /\ ~result.raised

\* The entry of (param, year, month) holds a number: it is there, and it is
\* neither null nor the sentinel.
IsData(pd, param, year, month) ==
  /\ param \in DOMAIN pd
  /\ PeriodKey(year, month) \in DOMAIN pd[param]
  /\ pd[param][PeriodKey(year, month)] \notin {MISSING, None}

DataMonths(pd, param, year) == {m \in Months : IsData(pd, param, year, m)}

\* The sum of f over the months of PM.
MonthSum(PM, f) == sum([m \in Months |-> IF m \in PM THEN f[m] ELSE 0])

\* C4: a well-formed record whose entries are absent, null or -999 in any
\* places never makes process_monthly_data raise.
C4_MissingNeverRaises == pc = "returned" => ~result.raised

\* The record with every missing entry of the data years shown the same way.
Rekind(pd, kind) ==
  [param \in DOMAIN pd |->
     LET cells == {c \in DataYears \X Months :
                     IsData(pd, param, c[1], c[2]) \/ kind # "absent"}
     IN  [key \in {PeriodKey(c[1], c[2]) : c \in cells} |->
            IF IsData(pd, param, key \div 100, key % 100) THEN pd[param][key]
            ELSE IF kind = "null" THEN None ELSE MISSING]]

\* C5: showing the missing entries of a record as absent, as null or as -999
\* never changes what process_monthly_data gives.
C5_MissingKindsAlike ==
  pc = "returned" =>
    \A kind \in HoleKinds :
      process_monthly_data(Response(Rekind(CalledData, kind)),
                           start_year, end_year) = result

\* The years of the range in which the parameter has all 12 months.
FullYears(pd, param) ==
  {y \in RangeYears : DataMonths(pd, param, y) = Months}

\* The record without the entries of the years that lack a month.
ErasePartial(pd) ==
  [param \in DOMAIN pd |->
     [key \in {k \in DOMAIN pd[param] :
                 (k \div 100) \notin RangeYears
                 \/ (k \div 100) \in FullYears(pd, param)} |->
        pd[param][key]]]

\* The precipitation block as a list of zero or one element.
PrecipBlockOf(variability) ==
  IF "precipitation" \in DOMAIN variability
  THEN <<variability["precipitation"]>> ELSE <<>>

PrecipBlockFor(pd) ==
  IF "PRECTOTCORR" \in DOMAIN pd
     /\ annual_precip(pd["PRECTOTCORR"], start_year, end_year) # <<>>
  THEN <<precipitation_block(
           annual_precip(pd["PRECTOTCORR"], start_year, end_year))>>
  ELSE <<>>

\* C6: only the years with all 12 months of a parameter count in its annual
\* summary and in the precipitation variability: each list has one value per
\* such year, and erasing every year that lacks a month changes neither the
\* annual summary nor the precipitation block.
C6_FullCoverageOnly ==
  ReturnedProfile =>
    LET pd == CalledData
    IN  /\ \A param \in DOMAIN pd :
             /\ Len(yearly_means(pd[param], param, start_year, end_year))
                  = Cardinality(FullYears(pd, param))
             /\ AnnualLabel(param) \in DOMAIN result.value.annual_summary
                  <=> FullYears(pd, param) # {}
        /\ "PRECTOTCORR" \in DOMAIN pd =>
             Len(annual_precip(pd["PRECTOTCORR"], start_year, end_year))
               = Cardinality(FullYears(pd, "PRECTOTCORR"))
        /\ result.value.annual_summary
             = annual(ErasePartial(pd), start_year, end_year)
        /\ PrecipBlockOf(result.value.variability)
             = PrecipBlockFor(ErasePartial(pd))

\* A parameter with 11 months in one year and 12 in another was summarised.
C6_Witness ==
  /\ ReturnedProfile
  /\ \E param \in DOMAIN CalledData : \E y1, y2 \in RangeYears :
       /\ Cardinality(DataMonths(CalledData, param, y1)) = 11
       /\ DataMonths(CalledData, param, y2) = Months
       /\ AnnualLabel(param) \in DOMAIN result.value.annual_summary

\* C7: in the yearly series a parameter's monthly mean of a year is the mean
\* over exactly the months present, rounded to 2 decimals, and the parameter
\* is left out of the year's record only when no month is present.
C7_YearlyMeanOverPresent ==
  ReturnedProfile =>
    \A y \in RangeYears : \A param \in DOMAIN CalledData :
      LET PM == DataMonths(CalledData, param, y)
          rec == result.value.yearly_data[y]
          val == [m \in PM |-> CalledData[param][PeriodKey(y, m)]]
      IN  /\ <<param, "_monthly_mean">> \in DOMAIN rec <=> PM # {}
          /\ PM # {} =>
               rec[<<param, "_monthly_mean">>]
                 = round(MonthSum(PM, val), Cardinality(PM), 2)

\* A year with 11 of 12 months present has its monthly mean.
C7_Witness ==
  /\ ReturnedProfile
  /\ \E y \in RangeYears : \E param \in DOMAIN CalledData :
       /\ Cardinality(DataMonths(CalledData, param, y)) = 11
       /\ <<param, "_monthly_mean">> \in DOMAIN result.value.yearly_data[y]

\* C8: in the yearly series the precipitation total of a year is the sum,
\* over the months present, of the month's value times the day count of
\* that same calendar month, rounded to 1 decimal.
C8_YearTotalOwnMonthDays ==
  ReturnedProfile =>
    \A y \in RangeYears :
      LET PM == DataMonths(CalledData, "PRECTOTCORR", y)
          weighted ==
            [m \in PM |->
               CalledData["PRECTOTCORR"][PeriodKey(y, m)] * days_per_month[m]]
      IN  PM # {} =>
            result.value.yearly_data[y][<<"PRECTOTCORR", "_annual_total_mm">>]
              = round(MonthSum(PM, weighted), DayScale, 1)

\* The year has 1 mm/day in each of its 12 months.
AllOnes(pd, y) ==
  \A m \in Months :
    IsData(pd, "PRECTOTCORR", y, m) /\ pd["PRECTOTCORR"][PeriodKey(y, m)] = 1

\* C9 as stated: a year with 1.0 mm/day in all 12 months has the annual
\* total 365.0, in the yearly series and in the annual summary.
C9_ConstantYearIs365 ==
  ReturnedProfile =>
    LET total == <<"PRECTOTCORR", "_annual_total_mm">>
        summary == result.value.annual_summary
    IN  \A y \in RangeYears : AllOnes(CalledData, y) =>
          /\ result.value.yearly_data[y][total] = 3650
          /\ summary[total].min <= 36500
          /\ summary[total].max >= 36500

\* C9, amended: a year with 1.0 mm/day in all 12 months has as annual total
\* the sum of the day-count table, which is 365.25 (February = 28.25): 365.2
\* in the yearly series (1 decimal, the tie rounded to even), within the
\* annual summary's min..max as 365.25, and, when every year of the range is
\* such a year, the summary's mean, min and max with std 0 and, to 1
\* decimal, both variability thresholds.
C9_ConstantYearIsTableSum ==
  /\ sum(days_per_month) = 1461
  /\ ReturnedProfile =>
       LET pd == CalledData
           total == <<"PRECTOTCORR", "_annual_total_mm">>
           summary == result.value.annual_summary
           precip == result.value.variability["precipitation"]
       IN  /\ \A y \in RangeYears : AllOnes(pd, y) =>
                /\ result.value.yearly_data[y][total] = 3652
                /\ summary[total].min <= 36525
                /\ summary[total].max >= 36525
           /\ (RangeYears # {} /\ \A y \in RangeYears : AllOnes(pd, y)) =>
                /\ summary[total]
                     = [mean |-> 36525, min |-> 36525, max |-> 36525, std |-> 0]
                /\ precip.drought_threshold_mm = 3652
                /\ precip.wet_threshold_mm = 3652

\* Every year of a full range has constant 1.0 mm/day and was reduced.
C9_Witness ==
  /\ ReturnedProfile
  /\ Cardinality(RangeYears) = MaxYears
  /\ \A y \in RangeYears : AllOnes(CalledData, y)
  /\ result.value.annual_summary[<<"PRECTOTCORR", "_annual_total_mm">>].mean
       = 36525

\* C10: the monthly climatology has its 12 month entries whatever the data,
\* and a month's mapping holds a parameter exactly when some year of the
\* range has a value for that month, then with n_years >= 1: never a
\* parameter with no contributing year.
C10_NoEmptyClimatologyEntry ==
  ReturnedProfile =>
    LET mc == result.value.monthly_climatology
    IN  /\ Len(mc) = 12
        /\ \A m \in Months :
             /\ mc[m].key = MONTH_NAMES[m]
             /\ \A i \in 1..Len(PARAMETERS) :
                  /\ PARAMETERS[i] \in DOMAIN mc[m].value
                       <=> \E y \in RangeYears :
                             IsData(CalledData, PARAMETERS[i], y, m)
                  /\ PARAMETERS[i] \in DOMAIN mc[m].value
                       => mc[m].value[PARAMETERS[i]].n_years >= 1

\* A parameter of the record has no value for some month in a non-empty
\* range, and the month's entry is there without it.
C10_Witness ==
  /\ ReturnedProfile
  /\ RangeYears # {}
  /\ \E m \in Months : \E param \in DOMAIN CalledData :
       /\ \A y \in RangeYears : ~IsData(CalledData, param, y, m)
       /\ result.value.monthly_climatology[m].key = MONTH_NAMES[m]
       /\ param \notin DOMAIN result.value.monthly_climatology[m].value
       /\ DOMAIN result.value.monthly_climatology[m].value # {}

\* C11: the monthly climatology is the 12 months Jan..Dec in calendar order,
\* and each parameter a month holds has n_years equal to the number of years
\* of the range with a value for that calendar month: 2 in every month for a
\* parameter with all its months in both years of a two-year range.
C11_CountsContributingYears ==
  ReturnedProfile =>
    LET mc == result.value.monthly_climatology
        contributing(param, m) ==
          {y \in RangeYears : IsData(CalledData, param, y, m)}
    IN  /\ [m \in 1..Len(mc) |-> mc[m].key] = MONTH_NAMES
        /\ \A m \in Months : \A param \in DOMAIN mc[m].value :
             mc[m].value[param].n_years
               = Cardinality(contributing(param, m))
        /\ \A param \in DOMAIN CalledData :
             (Cardinality(RangeYears) = 2
              /\ \A y \in RangeYears : DataMonths(CalledData, param, y) = Months)
             => \A m \in Months : mc[m].value[param].n_years = 2

\* A parameter with every month of both years of the range was reduced, and
\* another one with a month missing in one of the years has n_years = 1 there.
C11_Witness ==
  /\ ReturnedProfile
  /\ Cardinality(RangeYears) = 2
  /\ \E param \in DOMAIN CalledData :
       /\ \A y \in RangeYears : DataMonths(CalledData, param, y) = Months
       /\ \A m \in Months :
            result.value.monthly_climatology[m].value[param].n_years = 2
  /\ \E param \in DOMAIN CalledData : \E m \in Months :
       /\ param \in DOMAIN result.value.monthly_climatology[m].value
       /\ result.value.monthly_climatology[m].value[param].n_years = 1

\* ------------------------------------------------------ _std's claims
\* The list _std was called with (hundredths), and the variance whose square
\* root it returned.
StdCalled == raw.value

StdReturned == pc = "std_returned"

AllEqual(v) == \A i, j \in 1..Len(v) : v[i] = v[j]

\* C12 as stated: _std returns exactly 0 for any list of two or more equal
\* values.
C12_EqualValuesGiveZero ==
  (StdReturned /\ Len(StdCalled) >= 2 /\ AllEqual(StdCalled))
    => result.value.sqrt_of = FZero

\* C12, amended: _std returns exactly 0 for an empty or one-element list, for
\* two equal values and for any number of equal whole numbers; for values
\* that differ it returns the positive square root of the sum of squared
\* deviations from the mean over n - 1; what it returns is always a defined
\* float that is zero or positive.
C12_StdZeroCases ==
  StdReturned =>
    LET v == StdCalled
        r == result.value.sqrt_of
    IN  /\ r = FZero \/ (BLen(r.m) = MantBits /\ r.m = BTrim(r.m))
        /\ Len(v) < 2 => r = FZero
        /\ (Len(v) = 2 /\ v[1] = v[2]) => r = FZero
        /\ (AllEqual(v) /\ \A i \in 1..Len(v) : v[i] % 100 = 0) => r = FZero
        /\ ~AllEqual(v) => r # FZero
        /\ Len(v) >= 2 =>
             LET mean == FDivInt(FSum(AsFloats(v)), Len(v))
             IN  r = FZero <=>
                   \A i \in 1..Len(v) : FromDecimal(v[i], 100) = mean

\* Two equal values with no exact binary form gave 0, and two different
\* values gave a positive result.
C12_Witness ==
  /\ StdReturned
  /\ Len(StdCalled) = 2
  /\ StdCalled[1] = StdCalled[2]
  /\ StdCalled[1] % 100 # 0
  /\ result.value.sqrt_of = FZero

\* ------------------------------------- the precipitation block's claims
\* The totals the block was computed from.
VarCalled == raw.value

VarReturned == pc = "var_returned" /\ ~result.raised

\* C13: cv is null whenever the mean of the qualifying totals is <= 0, and
\* otherwise std/mean rounded to 3 decimals (the thousandth nearest to the
\* ratio); the block is produced for every non-empty list, zero mean
\* included.
C13_CvNullUnlessPositiveMean ==
  VarReturned =>
    LET ap == VarCalled
        S == sum(ap)
        n == Len(ap)
        s == _std(ap)
    IN  /\ "precipitation" \in DOMAIN result.value <=> ap # <<>>
        /\ ap # <<>> =>
             LET cv == result.value["precipitation"].cv
             IN  /\ S <= 0 => cv = None
                 /\ S > 0 =>
                      /\ cv \in Nat
                      /\ CvHalfBelow(cv, S, n, s)
                      /\ ~CvHalfBelow(cv + 1, S, n, s)

\* The totals have mean 0 and a positive std, and cv is null.
C13_Witness ==
  /\ VarReturned
  /\ Len(VarCalled) >= 2
  /\ sum(VarCalled) = 0
  /\ _std(VarCalled).sq_num > 0
  /\ result.value["precipitation"].cv = None

\* Where total p lies against mean - std and mean + std of the list ap:
\* "below", "above", "at" (equal to one of the two) or "between".  With
\* V = n * (mean - p), p < mean - std exactly when V > 0 and
\* V^2 / n^2 > sq_num / sq_den.
Side(p, ap) ==
  LET n == Len(ap)
      V == sum(ap) - n * p
      s == _std(ap)
      more == ~FracLeq(V * V, n * n, s.sq_num, s.sq_den)
      same == /\ FracLeq(V * V, n * n, s.sq_num, s.sq_den)
              /\ FracLeq(s.sq_num, s.sq_den, V * V, n * n)
  IN  IF same THEN "at"
      ELSE IF V > 0 /\ more THEN "below"
      ELSE IF V < 0 /\ more THEN "above"
      ELSE "between"

\* The five-year example of totals 100, 100, 100, 100, 500 mm.
FiveYearTotals == <<400, 400, 400, 400, 2000>>

\* C14: drought_frequency is the number of totals strictly below mean - std
\* over the number of totals, wet_frequency the number strictly above
\* mean + std over the same number, both to 3 decimals, so that a total equal
\* to a threshold counts in neither; the totals 100, 100, 100, 100, 500 give
\* the thresholds 1.1 and 358.9 and the frequencies 0.0 and 0.2.
C14_FrequenciesCountStrictly ==
  (VarReturned /\ VarCalled # <<>>) =>
    LET ap == VarCalled
        n == Len(ap)
        block == result.value["precipitation"]
        below == {k \in 1..n : Side(ap[k], ap) = "below"}
        above == {k \in 1..n : Side(ap[k], ap) = "above"}
    IN  /\ block.drought_frequency = round(Cardinality(below), n, 3)
        /\ block.wet_frequency = round(Cardinality(above), n, 3)
        /\ (\A k \in 1..n : Side(ap[k], ap) = "at") =>
             block.drought_frequency = 0 /\ block.wet_frequency = 0
        /\ ap = FiveYearTotals =>
             /\ block.drought_threshold_mm = 11
             /\ block.drought_frequency = 0
             /\ block.wet_threshold_mm = 3589
             /\ block.wet_frequency = 200

\* The block of three totals in arithmetic progression, whose smallest and
\* largest are equal to the two thresholds, counted none of them.
C14_Witness ==
  /\ VarReturned
  /\ Len(VarCalled) = 3
  /\ Side(VarCalled[1], VarCalled) = "at"
  /\ Side(VarCalled[3], VarCalled) = "at"
  /\ VarCalled[1] < VarCalled[3]
  /\ result.value["precipitation"].drought_frequency = 0
  /\ result.value["precipitation"].wet_frequency = 0

\* ------------------------------------------------ the batch's claims
\* A zone document has one of the two shapes.
OneShape(doc) ==
  \/ /\ DOMAIN doc = ProfileDocKeys
     /\ DOMAIN doc.climate_profile = ProfileKeys
  \/ DOMAIN doc = ErrorKeys

\* C15: every entry of the zones mapping, while the batch runs and in the
\* file written, is either {zone_name, representative_point, climate_profile}
\* with the four keys of the profile, or {zone_name, representative_point,
\* error}: never both climate_profile and error, never neither.
C15_ZoneDocumentShapes ==
  /\ \A z \in DOMAIN zones_out :
       /\ OneShape(zones_out[z])
       /\ ("climate_profile" \in DOMAIN zones_out[z])
            # ("error" \in DOMAIN zones_out[z])
  /\ output_file.written =>
       \A z \in DOMAIN output_file.zones : OneShape(output_file.zones[z])

\* A file was written that holds a document of each shape.
C15_Witness ==
  /\ output_file.written
  /\ \E z1, z2 \in DOMAIN output_file.zones :
       /\ DOMAIN output_file.zones[z1] = ErrorKeys
       /\ DOMAIN output_file.zones[z2] = ProfileDocKeys

\* The document of zone z as a function of what its own fetch gave, with
\* no reference to the other zones or to the order.
DocFor(z, outcome) ==
  LET r == IF outcome.raised THEN outcome
           ELSE process_monthly_data(outcome.value, start_year, end_year)
      head == [zone_name |-> zone_data(z).name,
               representative_point |-> zone_data(z).representative_point]
  IN  IF r.raised THEN head @@ [error |-> r.exc.msg]
      ELSE head @@ [climate_profile |-> r.value]

\* C16: the document recorded for a zone is determined by the zone and by
\* what its own fetch gave, wherever the zone stands in the registry and
\* whatever the other zones gave, and no later step changes it before it is
\* written; so the same per-zone fetch results give the same zones mapping
\* in every processing order.
C16_OrderInterchangeable ==
  /\ [](/\ pc = "sleep" =>
            /\ zone_id \in DOMAIN zones_out
            /\ zones_out[zone_id] = DocFor(zone_id, fetch_log[idx])
        /\ output_file.written => output_file.zones = zones_out)
  /\ [][\A z \in DOMAIN zones_out :
          z \in DOMAIN zones_out' /\ zones_out'[z] = zones_out[z]]_vars

\* A registry that is not in the order of the zone ids was processed in
\* full, its zones having different documents of the profile shape.
C16_Witness ==
  /\ output_file.written
  /\ Len(registry) = NumZones
  /\ \E i, j \in 1..Len(registry) :
       /\ i < j
       /\ registry[i] > registry[j]
       /\ ~fetch_log[i].raised
       /\ ~fetch_log[j].raised
       /\ fetch_log[i] # fetch_log[j]
       /\ "climate_profile" \in DOMAIN output_file.zones[registry[i]]
       /\ "climate_profile" \in DOMAIN output_file.zones[registry[j]]

\* C17: the zones are processed one at a time.  The fetches started are at
\* most one ahead of the documents recorded; a fetch starts only at the head
\* of the loop, when every earlier zone has its document and its delay has
\* run; the step that records a zone's document, profile or error, leads to
\* the delay; and the loop moves to the next zone only through the delay.
C17_OneZoneAtATime ==
  /\ [](/\ Len(fetch_log) - Cardinality(DOMAIN zones_out) \in {0, 1}
        /\ Len(fetch_log) \in {idx - 1, idx}
        /\ pc \in {"process", "except"} => Len(fetch_log) = idx
        /\ pc = "sleep" => ENABLED Sleep)
  /\ [][/\ fetch_log' # fetch_log =>
            /\ pc = "loop"
            /\ Len(fetch_log) = idx - 1
            /\ DOMAIN zones_out = {registry[i] : i \in 1..(idx - 1)}
            /\ fetch_log' = Append(fetch_log, raw')
        /\ zones_out' # zones_out =>
            /\ pc \in {"process", "except"}
            /\ pc' = "sleep"
            /\ DOMAIN zones_out' = DOMAIN zones_out \cup {zone_id}
        /\ idx' # idx =>
            /\ pc = "sleep"
            /\ pc' = "loop"
            /\ idx' = idx + 1
            /\ zone_id \in DOMAIN zones_out]_vars

\* The loop is back at its head after a zone that failed and a zone that
\* succeeded, each followed by its delay.
C17_Witness ==
  /\ pc = "loop"
  /\ idx = 3
  /\ Cardinality(DOMAIN zones_out) = 2
  /\ \E i, j \in 1..2 :
       /\ "error" \in DOMAIN zones_out[registry[i]]
       /\ "climate_profile" \in DOMAIN zones_out[registry[j]]

Stored(value, k) ==
  /\ IsDict(value)
  /\ k \in DOMAIN value.items
  /\ value.items[k] # YNone

\* C19: Config.get(key, default) gives the value found by descending the
\* loaded mapping one segment of the dotted key at a time, and gives default,
\* raising nothing, when a segment is missing, when the value a segment is
\* looked up in is not a mapping, or when the loaded data is not a mapping; a
\* stored 0, False or empty string is given as stored.
C19_ConfigGetOrDefault ==
  pc = "get_returned" =>
    LET data == raw.value.data
        default == raw.value.default
        segs == split(raw.value.key)
        got == result.value
    IN  /\ ~result.raised
        /\ ~IsDict(data) => got = default
        /\ Len(segs) = 1 =>
             got = IF Stored(data, segs[1]) THEN data.items[segs[1]]
                   ELSE default
        /\ Len(segs) = 2 =>
             got = IF Stored(data, segs[1])
                      /\ Stored(data.items[segs[1]], segs[2])
                   THEN data.items[segs[1]].items[segs[2]]
                   ELSE default
        /\ (Len(segs) >= 2 /\ Stored(data, segs[1])
            /\ ~IsDict(data.items[segs[1]])) => got = default
        /\ (Len(segs) >= 3 /\ Stored(data, segs[1])
            /\ Stored(data.items[segs[1]], segs[2])
            /\ ~IsDict(data.items[segs[1]].items[segs[2]])) => got = default

\* "a.b" found a stored 0 two levels down and gave it, not the default 42.
C19_Witness ==
  /\ pc = "get_returned"
  /\ raw.value.key = <<"a", ".", "b">>
  /\ raw.value.default = YScalar("int", "42")
  /\ Stored(raw.value.data, KeyA)
  /\ Stored(raw.value.data.items[KeyA], KeyB)
  /\ raw.value.data.items[KeyA].items[KeyB] = YScalar("int", "0")
  /\ result.value = YScalar("int", "0")

\* ------------------------------- variability against the annual summary
\* The precipitation series of the record the call was made on, empty where
\* the record has none.
CalledPrecip ==
  IF "PRECTOTCORR" \in DOMAIN CalledData THEN CalledData["PRECTOTCORR"]
  ELSE <<>>

\* The list the annual summary reduces for precipitation.
SummaryTotals ==
  yearly_means(CalledPrecip, "PRECTOTCORR", start_year, end_year)

\* The list the variability analysis works on.
VariabilityTotals == annual_precip(CalledPrecip, start_year, end_year)

PrecipLabel == <<"PRECTOTCORR", "_annual_total_mm">>

\* C20: the variability analysis takes its annual precipitation totals from
\* the same years, with the same values in the same order, as the annual
\* summary does; its precipitation block is present exactly when the summary
\* has PRECTOTCORR_annual_total_mm, and its two thresholds are the mean of
\* the summary's list minus and plus its std, rounded once to one decimal.
C20_VariabilityUsesSummaryTotals ==
  ReturnedProfile =>
    LET v == result.value.variability
        a == result.value.annual_summary
    IN  /\ VariabilityTotals = SummaryTotals
        /\ {y \in RangeYears : PrecipFullCoverage(YearValues(CalledPrecip, y))}
             = {y \in RangeYears : FullCoverage(YearValues(CalledPrecip, y))}
        /\ "precipitation" \in DOMAIN v <=> PrecipLabel \in DOMAIN a
        /\ "precipitation" \in DOMAIN v <=> SummaryTotals # <<>>
        /\ "precipitation" \in DOMAIN v =>
             /\ v["precipitation"].drought_threshold_mm
                  = round_threshold(SummaryTotals, DayScale, -1, 1)
             /\ v["precipitation"].wet_threshold_mm
                  = round_threshold(SummaryTotals, DayScale, 1, 1)

\* A profile was returned for a two-year range of which one year only has
\* its twelve precipitation values: both reductions kept that year alone.
C20_Witness ==
  /\ ReturnedProfile
  /\ Cardinality(RangeYears) = 2
  /\ Len(SummaryTotals) = 1
  /\ \E y \in RangeYears : Len(YearValues(CalledPrecip, y)) = 11
  /\ "precipitation" \in DOMAIN result.value.variability
  /\ PrecipLabel \in DOMAIN result.value.annual_summary

\* ------------------------------------------- the temperature sub-analysis
\* The T2M series of the record the call was made on, empty where the record
\* has none.
CalledT2M ==
  IF "T2M" \in DOMAIN CalledData THEN CalledData["T2M"] ELSE <<>>

\* The years of the range, in order, whose entry for the month is a number.
YearsWith(month) ==
  LET has(y) == IsData(CalledData, "T2M", y, month)
  IN  SelectSeq(YearSeq(start_year, end_year), has)

\* The month's values of those years.
PresentTemps(month) ==
  LET ys == YearsWith(month)
  IN  [k \in 1..Len(ys) |-> CalledT2M[PeriodKey(ys[k], month)]]

IsNumber(val) == val # None

\* C21: the January and the July list of the temperature sub-analysis are
\* collected independently: the July list holds the July value of every year
\* of the range that has one, whatever that year's January entry is, and the
\* January list likewise; the block of a returned profile is computed from
\* these two lists, which may differ in length.
C21_JanJulCollectedIndependently ==
  pc = "returned" =>
    /\ \A month \in {1, 7} :
         SelectSeq(month_temps(CalledT2M, month, start_year, end_year),
                   IsNumber)
           = PresentTemps(month)
    /\ (~result.raised /\ "temperature" \in DOMAIN result.value.variability)
         => LET jan == PresentTemps(1)
                jul == PresentTemps(7)
                t == result.value.variability["temperature"]
            IN  /\ t.jan_mean_std = round_std(_std(jan), 1, 2)
                /\ t.jul_mean_std = round_std(_std(jul), 1, 2)
                /\ t.thermal_amplitude_mean
                     = round(sum(jul) * Len(jan) - sum(jan) * Len(jul),
                             Len(jul) * Len(jan), 2)

\* A profile was returned for a record in which one year has its July value
\* and no January value: the July list has two members, the January list one.
C21_Witness ==
  /\ ReturnedProfile
  /\ "temperature" \in DOMAIN result.value.variability
  /\ Len(PresentTemps(7)) = 2
  /\ Len(PresentTemps(1)) = 1
  /\ \E y \in RangeYears :
       /\ IsData(CalledData, "T2M", y, 7)
       /\ ~IsData(CalledData, "T2M", y, 1)

\* ------------------------------------------- the blocks of variability
\* Some year of the range has its twelve precipitation values.
SomeFullPrecipYear ==
  \E y \in RangeYears : DataMonths(CalledData, "PRECTOTCORR", y) = Months

\* C22: the variability of a returned profile has a temperature block exactly
\* when the January list and the July list of T2M are both non-empty, and a
\* precipitation block exactly when the record has PRECTOTCORR and some year
\* of the range has all twelve of its values; it has no other block, and
\* neither block's presence depends on the other series.
C22_BlockPresence ==
  ReturnedProfile =>
    LET v == result.value.variability
    IN  /\ DOMAIN v \subseteq {"precipitation", "temperature"}
        /\ "temperature" \in DOMAIN v
             <=> (PresentTemps(1) # <<>> /\ PresentTemps(7) # <<>>)
        /\ "temperature" \in DOMAIN v
             <=> (/\ month_temps(CalledT2M, 1, start_year, end_year) # <<>>
                  /\ month_temps(CalledT2M, 7, start_year, end_year) # <<>>)
        /\ "precipitation" \in DOMAIN v
             <=> ("PRECTOTCORR" \in DOMAIN CalledData /\ SomeFullPrecipYear)

\* The record has precipitation, though with no full year, and temperature
\* for January and July: the temperature block is there without the other.
C22_Witness ==
  /\ ReturnedProfile
  /\ "PRECTOTCORR" \in DOMAIN CalledData
  /\ ~SomeFullPrecipYear
  /\ RangeYears # {}
  /\ DOMAIN result.value.variability = {"temperature"}

\* ------------------------------------------ the annual summary's values
\* The years of the range, in order, in which the parameter has 12 months.
FullYearSeq(param) ==
  LET full(y) == DataMonths(CalledData, param, y) = Months
  IN  SelectSeq(YearSeq(start_year, end_year), full)

\* A full year's value as the summary should take it: for precipitation the
\* sum of each month's value times that month's day count (over DayScale),
\* for another parameter the sum of the 12 values (over 12).
ExpectedYearly(param, y) ==
  LET val == [m \in Months |-> CalledData[param][PeriodKey(y, m)]]
      weighted == [m \in Months |-> val[m] * days_per_month[m]]
  IN  IF param = "PRECTOTCORR" THEN MonthSum(Months, weighted)
      ELSE MonthSum(Months, val)

ExpectedYearlyList(param) ==
  LET ys == FullYearSeq(param)
  IN  [k \in 1..Len(ys) |-> ExpectedYearly(param, ys[k])]

\* C23: in the annual summary of a returned profile a full year counts, for
\* precipitation, as the sum of its 12 values each times the day count of
\* its month, and for any other parameter as the mean of its 12 values;
\* precipitation stands under PRECTOTCORR_annual_total_mm and never under an
\* _annual_mean label, every other parameter under <param>_annual_mean only.
C23_AnnualValueAndLabel ==
  ReturnedProfile =>
    LET a == result.value.annual_summary
    IN  /\ \A label \in DOMAIN a :
             /\ label[1] \in DOMAIN CalledData
             /\ label[2] = (IF label[1] = "PRECTOTCORR"
                            THEN "_annual_total_mm" ELSE "_annual_mean")
        /\ \A param \in DOMAIN CalledData :
             LET vals == ExpectedYearlyList(param)
                 den == IF param = "PRECTOTCORR" THEN DayScale ELSE 12
                 label == <<param, IF param = "PRECTOTCORR"
                                   THEN "_annual_total_mm"
                                   ELSE "_annual_mean">>
             IN  /\ label \in DOMAIN a <=> vals # <<>>
                 /\ vals # <<>> =>
                      /\ a[label].mean = round(sum(vals), den * Len(vals), 2)
                      /\ a[label].min = round(min(vals), den, 2)
                      /\ a[label].max = round(max(vals), den, 2)
                      /\ a[label].std = round_std(_std(vals), den, 2)

\* Precipitation and temperature were both summarised over two full years,
\* and the two precipitation totals differ.
C23_Witness ==
  /\ ReturnedProfile
  /\ <<"PRECTOTCORR", "_annual_total_mm">>
       \in DOMAIN result.value.annual_summary
  /\ <<"T2M", "_annual_mean">> \in DOMAIN result.value.annual_summary
  /\ Len(FullYearSeq("PRECTOTCORR")) = 2
  /\ ExpectedYearly("PRECTOTCORR", start_year)
       # ExpectedYearly("PRECTOTCORR", end_year)

\* ------------------------------------------------- the quick summary
\* C24: once the batch is saved, the quick summary runs to its end without
\* raising, whatever the documents of the zones are: error documents,
\* profiles, and profiles whose annual summary lacks the precipitation total
\* or the temperature mean.
C24_QuickSummaryFinishes ==
  /\ pc # "crashed"
  /\ pc = "done" => \A z \in DOMAIN zones_out : SummaryLineOk(zones_out[z])

\* ------------------------------------------------- zero is a value
\* The record with every number replaced by 0; the missing entries stay as
\* they are.
Zeroed(pd) ==
  [param \in DOMAIN pd |->
     [key \in DOMAIN pd[param] |->
        IF pd[param][key] \in {MISSING, None} THEN pd[param][key] ELSE 0]]

\* What of a profile depends on which entries are present only: the counts
\* of the climatology and the keys of the other three parts.
Shape(profile) ==
  [n_years |->
     [m \in Months |->
        [param \in DOMAIN profile.monthly_climatology[m].value |->
           profile.monthly_climatology[m].value[param].n_years]],
   annual |-> DOMAIN profile.annual_summary,
   yearly |->
     [y \in DOMAIN profile.yearly_data |-> DOMAIN profile.yearly_data[y]],
   variability |-> DOMAIN profile.variability]

\* C25: a monthly value of 0 is data.  In a returned profile a month counts
\* toward n_years, a year toward full coverage and a parameter toward the
\* year's record by the entries that are neither -999, null nor absent,
\* zeros included; and the record with every number replaced by 0 gives a
\* profile with the same counts and the same keys, whose means and totals
\* are 0.
C25_ZeroIsData ==
  ReturnedProfile =>
    LET pd == CalledData
        p == result.value
        z == process_monthly_data(Response(Zeroed(pd)), start_year, end_year)
    IN  /\ \A m \in Months : \A param \in DOMAIN pd :
             LET ys == {y \in RangeYears : IsData(pd, param, y, m)}
             IN  /\ param \in DOMAIN p.monthly_climatology[m].value
                      <=> ys # {}
                 /\ ys # {} =>
                      p.monthly_climatology[m].value[param].n_years
                        = Cardinality(ys)
        /\ \A param \in DOMAIN pd :
             (\E label \in DOMAIN p.annual_summary : label[1] = param)
               <=> (\E y \in RangeYears : DataMonths(pd, param, y) = Months)
        /\ \A y \in RangeYears : \A param \in DOMAIN pd :
             <<param, "_monthly_mean">> \in DOMAIN p.yearly_data[y]
               <=> DataMonths(pd, param, y) # {}
        /\ "precipitation" \in DOMAIN p.variability
             <=> \E y \in RangeYears :
                   DataMonths(pd, "PRECTOTCORR", y) = Months
        /\ ~z.raised
        /\ Shape(z.value) = Shape(p)
        /\ \A label \in DOMAIN z.value.annual_summary :
             /\ z.value.annual_summary[label].mean = 0
             /\ z.value.annual_summary[label].min = 0
             /\ z.value.annual_summary[label].max = 0
        /\ \A y \in RangeYears : \A k \in DOMAIN z.value.yearly_data[y] :
             z.value.yearly_data[y][k] = 0
        /\ \A m \in Months :
             \A param \in DOMAIN z.value.monthly_climatology[m].value :
               z.value.monthly_climatology[m].value[param].mean = 0
        /\ "temperature" \in DOMAIN z.value.variability =>
             z.value.variability["temperature"].thermal_amplitude_mean = 0

\* A year whose precipitation is 0 in some month and present in all twelve
\* was taken as a full year: the summary and the variability block are there.
C25_Witness ==
  /\ ReturnedProfile
  /\ \E y \in RangeYears :
       /\ DataMonths(CalledData, "PRECTOTCORR", y) = Months
       /\ \E m \in Months : CalledData["PRECTOTCORR"][PeriodKey(y, m)] = 0
       /\ Cardinality(RangeYears) = 1
  /\ <<"PRECTOTCORR", "_annual_total_mm">>
       \in DOMAIN result.value.annual_summary
  /\ "precipitation" \in DOMAIN result.value.variability
  /\ "temperature" \in DOMAIN result.value.variability

\* ------------------------------------------------- the yearly series' keys
\* C26: yearly_data of a returned profile has one key for each year of the
\* range start..end and no other, a year in which no parameter has a value
\* having an empty record; a year's record has the precipitation total
\* exactly when it has the precipitation monthly mean, and holds entries of
\* the parameters with a value in that year only.
C26_OneRecordPerYear ==
  ReturnedProfile =>
    LET yd == result.value.yearly_data
    IN  /\ DOMAIN yd = RangeYears
        /\ \A y \in RangeYears :
             /\ (\A param \in DOMAIN CalledData :
                   DataMonths(CalledData, param, y) = {}) => yd[y] = <<>>
             /\ <<"PRECTOTCORR", "_annual_total_mm">> \in DOMAIN yd[y]
                  <=> <<"PRECTOTCORR", "_monthly_mean">> \in DOMAIN yd[y]
             /\ \A label \in DOMAIN yd[y] :
                  /\ DataMonths(CalledData, label[1], y) # {}
                  /\ label[2] \in {"_monthly_mean", "_annual_total_mm"}
                  /\ label[2] = "_annual_total_mm" => label[1] = "PRECTOTCORR"

\* The record holds no parameter and the range has two years: both years
\* are keys, each with an empty record.
C26_Witness ==
  /\ ReturnedProfile
  /\ DOMAIN CalledData = {}
  /\ Cardinality(RangeYears) = 2
  /\ DOMAIN result.value.yearly_data = RangeYears
  /\ \A y \in RangeYears : result.value.yearly_data[y] = <<>>

\* ------------------------------------------- the range of the frequencies
\* C27: in a precipitation block drought_frequency and wet_frequency are
\* each between 0 and 1, no total counts as a drought year and as a wet
\* year, so that the two sum to 1 at most, and both are 0 when there is one
\* total only and when all the totals are equal.
C27_FrequenciesBounded ==
  (VarReturned /\ VarCalled # <<>>) =>
    LET ap == VarCalled
        n == Len(ap)
        S == sum(ap)
        s == _std(ap)
        block == result.value["precipitation"]
    IN  /\ block.drought_frequency \in 0..1000
        /\ block.wet_frequency \in 0..1000
        /\ block.drought_frequency + block.wet_frequency <= 1000
        /\ \A k \in 1..n :
             ~(BelowDrought(ap[k], S, n, s) /\ AboveWet(ap[k], S, n, s))
        /\ n = 1 =>
             block.drought_frequency = 0 /\ block.wet_frequency = 0
        /\ (\A i, j \in 1..n : ap[i] = ap[j]) =>
             block.drought_frequency = 0 /\ block.wet_frequency = 0

\* Three equal totals of 300 mm gave a block with both frequencies 0.
C27_Witness ==
  /\ VarReturned
  /\ VarCalled = <<1200, 1200, 1200>>
  /\ result.value["precipitation"].drought_frequency = 0
  /\ result.value["precipitation"].wet_frequency = 0

\* ------------------------------------------------- the empty year range
\* C28: for a year range with start > end process_monthly_data raises
\* nothing and returns a profile whose monthly_climatology has the 12 month
\* names in order, each with an empty mapping, and whose annual_summary,
\* yearly_data and variability are empty.
C28_EmptyRangeEmptyProfile ==
  (pc = "returned" /\ start_year > end_year) =>
    /\ ~result.raised
    /\ LET mc == result.value.monthly_climatology
       IN  /\ [m \in 1..Len(mc) |-> mc[m].key] = MONTH_NAMES
           /\ \A m \in 1..Len(mc) : mc[m].value = <<>>
    /\ result.value.annual_summary = <<>>
    /\ result.value.yearly_data = <<>>
    /\ result.value.variability = <<>>

\* The call was made with start > end on a record that holds every
\* parameter, null January temperatures included, and returned.
C28_Witness ==
  /\ ReturnedProfile
  /\ start_year > end_year
  /\ DOMAIN CalledData = DataParams
  /\ \E y \in DataYears :
       /\ PeriodKey(y, 1) \in DOMAIN CalledData["T2M"]
       /\ CalledData["T2M"][PeriodKey(y, 1)] = None
  /\ result.value.yearly_data = <<>>
  /\ \A m \in Months : result.value.monthly_climatology[m].value = <<>>

\* ------------------------------------------------- the cached Config
\* C29: over any sequence of load_config and get_config calls at most one
\* Config object is ever made and cached.  A call made while one is cached
\* returns that object and leaves the cache alone, whatever path it is
\* given; a call made while none is cached returns and caches a new object
\* when the file of its path loads, and otherwise raises and leaves the
\* cache unset.
C29_SingleCachedInstance ==
  /\ [](/\ constructed <= 1
        /\ Len(_config_instance) = constructed
        /\ _config_instance # <<>> => _config_instance[1].id = 1)
  /\ [][calls' = calls + 1 =>
          IF _config_instance # <<>>
          THEN /\ _config_instance' = _config_instance
               /\ constructed' = constructed
               /\ result' = Return(_config_instance[1])
          ELSE LET config_path == raw'.value.config_path
               IN  IF config_files[config_path] \in {"missing", "malformed"}
                   THEN /\ result'.raised
                        /\ _config_instance' = <<>>
                        /\ constructed' = constructed
                   ELSE /\ ~result'.raised
                        /\ _config_instance' = <<result'.value>>
                        /\ result'.value.config_path = config_path
                        /\ result'.value.data = config_files[config_path]
                        /\ constructed' = 1]_vars

\* The object of config.yaml is cached, and load_config("alt.yaml"), whose
\* file loads too and holds other settings, returned that same object.
C29_Witness ==
  /\ calls = MaxCalls
  /\ _config_instance # <<>>
  /\ _config_instance[1].config_path = "config.yaml"
  /\ raw.value.call = "load_config"
  /\ raw.value.config_path = "alt.yaml"
  /\ config_files["alt.yaml"] = "settings_b"
  /\ _config_instance[1].data = "settings_a"
  /\ result = Return(_config_instance[1])

\* ------------------------------------------------- the logger's handlers
\* The level names setup_logging documents, and their numbers.
DocumentedLevels ==
  [name \in {"DEBUG", "INFO", "WARNING", "ERROR", "CRITICAL"} |->
     CASE name = "DEBUG" -> 10
       [] name = "INFO" -> 20
       [] name = "WARNING" -> 30
       [] name = "ERROR" -> 40
       [] OTHER -> 50]

\* C30: after any sequence of setup_logging calls the agroai_sim logger has
\* exactly the handlers of the last call, one console handler, followed by
\* one file handler exactly when that call was given a log file; the call
\* raises nothing, and a log_level that names no level counts as INFO.
\* Stated for a last call whose log file, if any, can be opened.
C30_HandlersOfLastCall ==
  (calls > 0 /\ \A i \in 1..Len(raw.value.log_file) :
                  raw.value.log_file[i] \notin BlockedPaths) =>
    LET log_level == raw.value.log_level
        log_file == raw.value.log_file
        lvl == IF upper[log_level] \in DOMAIN DocumentedLevels
               THEN DocumentedLevels[upper[log_level]] ELSE 20
    IN  /\ ~result.raised
        /\ level = lvl
        /\ handlers =
             IF log_file # <<>> /\ log_file[1] # ""
             THEN <<console_handler(lvl), file_handler(lvl, log_file[1])>>
             ELSE <<console_handler(lvl)>>

====
